---------------------------- MODULE Spec2Model ----------------------------
(***************************************************************************)
(* A model of the goproxy2 engine: the guarded handler registry            *)
(* (actions.go), the request/response handler chains and the plain-HTTP    *)
(* path (ctx.go), the CONNECT dispatcher, its MITM loops and the stream    *)
(* splicer (https.go and its later revision).                              *)
(*                                                                         *)
(* Pointers are modelled by a ptr field: two requests (responses, bodies)  *)
(* are the same Go object iff their ptr is equal.  A nil pointer is Nil.   *)
(***************************************************************************)
EXTENDS Integers, Sequences, FiniteSets, TLC

\* ------------------------------------------------------------------ bounds

\* Handlers registered on one proxy, over its three lists together.
MaxHandlers == 3

\* ------------------------------------------------------------------- values

Nil == [kind |-> "nil"]

HostNames == {"example.com", "www.reddit.com"}

\* The peer addresses (RemoteAddr) requests arrive from, as ip and port.
RemoteAddrs == {[ip |-> "10.0.0.1", port |-> "5000"], [ip |-> "10.0.0.2", port |-> "5000"]}

\* removeProxyHeaders deletes exactly these.
HopHeaders == {"Accept-Encoding", "Proxy-Connection", "Proxy-Authenticate",
               "Proxy-Authorization", "Connection"}

\* The header sets an incoming request may carry.
InputHeaders == {{"User-Agent"},
                 {"User-Agent", "Proxy-Connection"},
                 HopHeaders \cup {"User-Agent"}}

\* url.URL.Host of a request: host name and port ("" when the URL has none).
UrlHost(name, port) == [name |-> name, port |-> port]

\* An *http.Request.
\*   scheme : r.URL.Scheme ("" for a URL that is not absolute)
\*   host   : r.URL.Host
\*   Host   : r.Host
\*   path   : r.URL.Path ("*" for the request line "OPTIONS * HTTP/1.1")
\*   URL    : r.URL is not nil
\*   uri    : r.RequestURI is set (non-empty)
\*   ctx    : the *ProxyCtx stored in the request's context (Nil: none yet)
NewRequest(ptr, scheme, urlHost, hostHdr, remote, hdrs) ==
    [kind |-> "req", ptr |-> ptr, scheme |-> scheme, host |-> urlHost, Host |-> hostHdr,
     path |-> "/", URL |-> TRUE,
     remote |-> remote, hdrs |-> hdrs, uri |-> TRUE, ctx |-> Nil]

\* IsAbs taking a request with a Host header for absolute.
IsAbsByHostHeader(r) == r.scheme # "" \/ r.Host.name # ""

\* r.URL.IsAbs()
IsAbs(r) == r.scheme # ""

\* The non-CONNECT requests a client sends: "GET http://name/..." to a proxy,
\* or "GET /..." as to an origin server.
PlainRequests ==
    {NewRequest(1, "http", UrlHost(n, ""), UrlHost(n, ""), ra, hs) :
        n \in HostNames, ra \in RemoteAddrs, hs \in InputHeaders}
    \cup
    {NewRequest(1, "", UrlHost("", ""), UrlHost(n, ""), ra, {"User-Agent"}) :
        n \in HostNames, ra \in RemoteAddrs}

\* http.Header of a response: a set of <<name, value>> pairs.
HeaderDel(hdrs, name) == {p \in hdrs : p[1] # name}

HeaderSet(hdrs, name, value) == HeaderDel(hdrs, name) \cup {<<name, value>>}

HeaderHas(hdrs, name) == \E p \in hdrs : p[1] = name

HeaderGet(hdrs, name) ==
    IF HeaderHas(hdrs, name) THEN (CHOOSE p \in hdrs : p[1] = name)[2] ELSE ""

ContentTypes == {"text/html", "text/html; charset=utf-8", "application/json"}

\* A response: status code, headers and the body object it points to.
NewResponse(ptr, status, ctype, body) ==
    [kind |-> "resp", ptr |-> ptr, status |-> status,
     hdrs |-> {<<"Content-Type", ctype>>, <<"Content-Length", "22">>},
     body |-> body]

\* ---------------------------------------------------------- predicate DSL

\* DstHostIs(host): req.URL.Host == host, port included.
DstHostIs(host, req) == req.host = host

\* SrcIpIs(ip): RemoteAddr has the prefix ip + ":".
SrcIpIs(ip, req) == req.remote.ip = ip

\* A header value as the pieces that the comparisons made on it tell apart.
Tokens(s) ==
    CASE s = "text/html; charset=utf-8" -> <<"text/html", ";", " charset=utf-8">>
      [] s = "application/json-seq" -> <<"application/json", "-seq">>
      [] OTHER -> <<s>>

\* strings.HasPrefix
HasPrefix(s, prefix) ==
    Len(prefix) <= Len(s) /\ SubSeq(s, 1, Len(prefix)) = prefix

\* ContentTypeIs matching every Content-Type that begins with one of the types.
ContentTypeIsPrefix(types, resp) ==
    IF resp = Nil THEN FALSE
    ELSE LET contentType == HeaderGet(resp.hdrs, "Content-Type")
         IN  \E typ \in types : HasPrefix(Tokens(contentType), Tokens(typ))

\* ContentTypeIs(typ, types...), types being all of them: false on a nil
\* response; else whether Content-Type is one of the types or begins with one
\* of them and ";".
ContentTypeIs(types, resp) ==
    IF resp = Nil THEN FALSE
    ELSE LET contentType == HeaderGet(resp.hdrs, "Content-Type")
         IN  \E typ \in types :
                \/ contentType = typ
                \/ HasPrefix(Tokens(contentType), Tokens(typ) \o <<";">>)

\* A condition value: its constructor and argument.
CondDstHostIs(host) == [cond |-> "DstHostIs", arg |-> host]

CondSrcIpIs(ip) == [cond |-> "SrcIpIs", arg |-> [name |-> ip, port |-> ""]]

CondNotDstHostIs(host) == [cond |-> "NotDstHostIs", arg |-> host]

\* ContentTypeIs(typ, types...): types = append(types, typ)
CondContentTypeIsAny(typ, types) ==
    [cond |-> "ContentTypeIs",
     arg |-> [name |-> typ, port |-> "", types |-> types \cup {typ}]]

CondContentTypeIs(typ) == CondContentTypeIsAny(typ, {})

\* ReqCondition.HandleReq
HandleReq(c, req) ==
    CASE c.cond = "DstHostIs" -> DstHostIs(c.arg, req)
      [] c.cond = "SrcIpIs" -> SrcIpIs(c.arg.name, req)
      [] c.cond = "NotDstHostIs" -> ~DstHostIs(c.arg, req)
      [] OTHER -> FALSE

\* RespCondition.HandleResp: a ReqConditionFunc ignores the response.
HandleResp(c, req, resp) ==
    IF c.cond = "ContentTypeIs" THEN ContentTypeIs(c.arg.types, resp)
    ELSE HandleReq(c, req)


\* ------------------------------------------------------- request context

\* &ProxyCtx{}: every field at its zero value ("" is the nil error, the nil
\* RoundTripper and the nil proxy; Req holds the address of a request and 0
\* is nil).
EmptyProxyCtx ==
    [kind |-> "ctx", Req |-> 0, Resp |-> Nil, RoundTripper |-> "", Error |-> "",
     UserData |-> Nil, Session |-> 0, proxy |-> ""]

\* GetAnyProxyCtx: the request's ProxyCtx, an empty one when it has none.
GetAnyProxyCtx(r) == IF r.ctx = Nil THEN EmptyProxyCtx ELSE r.ctx

\* GetProxyCtx: the request's ProxyCtx; when it has none, a fresh one is stored
\* in a copy of the request (r.WithContext returns a new *http.Request).
GetProxyCtx(r) ==
    IF r.ctx = Nil THEN [r EXCEPT !.ctx = EmptyProxyCtx, !.ptr = @ + 1] ELSE r

\* SetCtxProxy / requestWithContext: records the proxy in the ProxyCtx.
SetCtxProxy(r, proxy) == [GetProxyCtx(r) EXCEPT !.ctx.proxy = proxy]

requestWithContext(r) == SetCtxProxy(r, "proxy")

\* SetCtxError keeping the error in a ProxyCtx of its own.
SetCtxErrorNewCtx(r, err) ==
    [r EXCEPT !.ctx = [EmptyProxyCtx EXCEPT !.Error = err, !.proxy = "proxy"],
              !.ptr = @ + 1]

\* SetCtxError
SetCtxError(r, err) == [GetProxyCtx(r) EXCEPT !.ctx.Error = err]

\* SetCtxRoundTripper
SetCtxRoundTripper(r, rt) == [GetProxyCtx(r) EXCEPT !.ctx.RoundTripper = rt]

\* CtxRoundTripper: the RoundTripper of the ProxyCtx, and proxyCtx.proxy.Tr
\* ("Tr") when it is nil; with no proxy in the ProxyCtx that expression
\* dereferences a nil *ProxyHttpServer.
CtxRoundTripper(r) ==
    LET proxyCtx == GetAnyProxyCtx(r)
    IN  IF proxyCtx.RoundTripper # "" THEN [rt |-> proxyCtx.RoundTripper, panics |-> FALSE]
        ELSE IF proxyCtx.proxy = "" THEN [rt |-> "", panics |-> TRUE]
        ELSE [rt |-> "Tr", panics |-> FALSE]

\* CtxRequest
CtxRequest(r) == GetAnyProxyCtx(r).Req

\* SetCtxUserData
SetCtxUserData(r, data) == [GetProxyCtx(r) EXCEPT !.ctx.UserData = data]

\* CtxUserData
CtxUserData(r) == GetAnyProxyCtx(r).UserData

\* CtxSession: GetAnyProxyCtx(r).Session, 0 for a request with no ProxyCtx.
CtxSession(r) == IF r.ctx = Nil THEN EmptyProxyCtx.Session ELSE r.ctx.Session

\* --------------------------------------------------------- user handlers

\* What a registered ReqHandler does with the request it is given:
\*   keep    : returns (r, nil)
\*   replace : returns a new request that also asks for "Connection", and nil
\*   canned  : returns (r, a canned 403 response)
ReqBehaviours == {"keep", "replace", "canned"}

\* What a ReqHandler that works with the request context does:
\*   stamp : keeps data about the request it is given in the user-data slot
\*   setrt : sets its own round-tripper for the request
\*   fresh : returns a request made with http.NewRequest for the same URL
CtxReqBehaviours == {"stamp", "setrt", "fresh"}

\* The data the stamp handler keeps for request r.
Stamp(r) == [kind |-> "data", host |-> r.Host.name, remote |-> r.remote.ip]

CannedResponse == NewResponse(90, 403, "text/plain", 91)

ReqHandle(beh, r) ==
    CASE beh = "replace" ->
            [req |-> [r EXCEPT !.ptr = @ + 1, !.hdrs = @ \cup {"Connection"}],
             resp |-> Nil]
      [] beh = "canned" -> [req |-> r, resp |-> CannedResponse]
      [] beh = "stamp" -> [req |-> SetCtxUserData(r, Stamp(r)), resp |-> Nil]
      [] beh = "setrt" -> [req |-> SetCtxRoundTripper(r, "custom"), resp |-> Nil]
      [] beh = "fresh" ->
            [req |-> [NewRequest(r.ptr + 1, r.scheme, r.host, r.Host,
                                 [ip |-> "", port |-> ""], r.hdrs)
                         EXCEPT !.uri = FALSE],
             resp |-> Nil]
      [] OTHER -> [req |-> r, resp |-> Nil]

\* What a registered RespHandler does with the pair it is given:
\*   keep    : returns (req, resp)
\*   rewrite : gives the response a new body; synthesizes a 502 response when
\*             it is given a nil response
\*   newreq  : returns a new request and the response it was given
RespBehaviours == {"keep", "rewrite", "newreq"}

SynthResponse == NewResponse(80, 502, "text/html", 81)

RespHandle(beh, req, resp) ==
    CASE beh = "rewrite" ->
            [req |-> req,
             resp |-> IF resp = Nil THEN SynthResponse
                      ELSE [resp EXCEPT !.body = @ + 1]]
      [] beh = "newreq" -> [req |-> [req EXCEPT !.ptr = @ + 1], resp |-> resp]
      [] OTHER -> [req |-> req, resp |-> resp]

\* ------------------------------------------------------ handler registry

\* The guards a registration may carry (OnRequest(conds...)).
ReqGuards ==
    {<<>>,
     <<CondDstHostIs(UrlHost("example.com", ""))>>,
     <<CondDstHostIs(UrlHost("example.com", "")), CondSrcIpIs("10.0.0.1")>>}

\* The guards of OnResponse(conds...): response and request conditions alike.
RespGuards ==
    {<<>>,
     <<CondContentTypeIs("text/html")>>,
     <<CondContentTypeIs("text/html"), CondDstHostIs(UrlHost("example.com", ""))>>}

\* The loop over pcond.reqConds leaving after its first condition.
ReqCondsMatchFirst(conds, r) == Len(conds) = 0 \/ HandleReq(conds[1], r)

\* for _, cond := range pcond.reqConds { if !cond.HandleReq(r) { return ... } }
ReqCondsMatch(conds, r) == \A i \in 1..Len(conds) : HandleReq(conds[i], r)

\* for _, cond := range pcond.respCond { if !cond.HandleResp(req, resp) {...} }
RespCondsMatch(conds, req, resp) ==
    \A i \in 1..Len(conds) : HandleResp(conds[i], req, resp)

\* The closure ReqProxyConds.Do registers: the guarded call of h.Handle.
ReqProxyCondsDo(h, r) ==
    IF ~ReqCondsMatch(h.reqConds, r)
    THEN [req |-> r, resp |-> Nil, invoked |-> FALSE]
    ELSE [req |-> ReqHandle(h.beh, r).req, resp |-> ReqHandle(h.beh, r).resp,
          invoked |-> TRUE]

\* ProxyConds.Do without its second loop: the response conditions are not asked.
ProxyCondsDoNoRespConds(h, req, resp) ==
    IF ~ReqCondsMatch(h.reqConds, req) THEN [req |-> req, resp |-> resp, invoked |-> FALSE]
    ELSE [req |-> RespHandle(h.beh, req, resp).req,
          resp |-> RespHandle(h.beh, req, resp).resp, invoked |-> TRUE]

\* The closure ProxyConds.Do registers.
ProxyCondsDo(h, req, resp) ==
    IF ~ReqCondsMatch(h.reqConds, req) THEN [req |-> req, resp |-> resp, invoked |-> FALSE]
    ELSE IF ~RespCondsMatch(h.respCond, req, resp)
    THEN [req |-> req, resp |-> resp, invoked |-> FALSE]
    ELSE [req |-> RespHandle(h.beh, req, resp).req,
          resp |-> RespHandle(h.beh, req, resp).resp, invoked |-> TRUE]

\* One call of a registered handler by the engine, as the engine sees it.
HandlerCall(chain, i, h, inReq, inResp, out) ==
    [ev |-> "handler", chain |-> chain, idx |-> i, h |-> h,
     inReq |-> inReq, inResp |-> inResp,
     outReq |-> out.req, outResp |-> out.resp, invoked |-> out.invoked]

\* ------------------------------------------------------- handler chains

RECURSIVE filterRequestLoopNoBreak(_, _, _, _)
\* filterRequest without its break: the loop goes on after a canned response.
filterRequestLoopNoBreak(hs, i, req, log) ==
    IF i > Len(hs) THEN [req |-> req, resp |-> Nil, log |-> log]
    ELSE LET out == ReqProxyCondsDo(hs[i], req)
             log2 == Append(log, HandlerCall("req", i, hs[i], req, Nil, out))
             rest == filterRequestLoopNoBreak(hs, i + 1, out.req, log2)
         IN  IF out.resp # Nil /\ rest.resp = Nil
             THEN [rest EXCEPT !.resp = out.resp]
             ELSE rest

RECURSIVE filterRequestLoop(_, _, _, _)
\* The loop of filterRequest from handler i on: req is the request so far.
filterRequestLoop(hs, i, req, log) ==
    IF i > Len(hs) THEN [req |-> req, resp |-> Nil, log |-> log]
    ELSE LET out == ReqProxyCondsDo(hs[i], req)
             log2 == Append(log, HandlerCall("req", i, hs[i], req, Nil, out))
         IN  IF out.resp # Nil
             THEN [req |-> out.req, resp |-> out.resp, log |-> log2]
             ELSE filterRequestLoop(hs, i + 1, out.req, log2)

filterRequest(hs, r) == filterRequestLoop(hs, 1, r, <<>>)

RECURSIVE filterResponseLoop(_, _, _, _, _)
filterResponseLoop(hs, i, req, resp, log) ==
    IF i > Len(hs) THEN [req |-> req, resp |-> resp, log |-> log]
    ELSE LET out == ProxyCondsDo(hs[i], req, resp)
         IN  filterResponseLoop(hs, i + 1, out.req, out.resp,
                 Append(log, HandlerCall("resp", i, hs[i], req, resp, out)))

filterResponse(hs, req, resp) == filterResponseLoop(hs, 1, req, resp, <<>>)

\* removeProxyHeaders: clears RequestURI and deletes the hop-by-hop headers.
removeProxyHeaders(r) == [r EXCEPT !.uri = FALSE, !.hdrs = @ \ HopHeaders]

\* ------------------------------------------------------- round tripper

\* What the round-tripper does with a request it is given.
RoundTripKinds == {"html", "json", "error"}

OriginResponse(ctype) == NewResponse(50, 200, ctype, 51)

RoundTrip(rt, req) ==
    CASE rt = "error" -> [resp |-> Nil, err |-> "round trip failed"]
      [] rt = "html" -> [resp |-> OriginResponse("text/html; charset=utf-8"), err |-> ""]
      [] rt = "jsonseq" -> [resp |-> OriginResponse("application/json-seq"), err |-> ""]
      [] OTHER -> [resp |-> OriginResponse("application/json"), err |-> ""]

\* ------------------------------------------------------ upstream proxy

\* The value of an environment variable that names a proxy, by the parts
\* url.Parse finds in it; NoURL is the empty string.
ProxyURL(scheme, name, port) == [scheme |-> scheme, name |-> name, port |-> port]

NoURL == ProxyURL("", "", "")

ProxyURLs ==
    {NoURL,
     ProxyURL("http", "up.example", "3128"),
     ProxyURL("https", "up.example", ""),
     ProxyURL("socks5", "up.example", "1080")}

\* The environment New() runs in.
Environs == [HTTPS_PROXY : ProxyURLs, https_proxy : ProxyURLs]

NoEnviron == [HTTPS_PROXY |-> NoURL, https_proxy |-> NoURL]

\* proxy.NewConnectDialToProxy(https_proxy): a dial function for the schemes
\* "" and "http" (default port 80) and for "https" (default port 443, TLS to
\* the upstream), nil for any other scheme.
NewConnectDialToProxy(v) ==
    CASE v.scheme \in {"", "http"} ->
            [kind |-> "dialer", tls |-> FALSE,
             Host |-> [name |-> v.name, port |-> IF v.port = "" THEN "80" ELSE v.port]]
      [] v.scheme = "https" ->
            [kind |-> "dialer", tls |-> TRUE,
             Host |-> [name |-> v.name, port |-> IF v.port = "" THEN "443" ELSE v.port]]
      [] OTHER -> [kind |-> "nil"]

\* dialerFromEnv: HTTPS_PROXY, https_proxy when that is empty, nil when both are.
dialerFromEnv(env) ==
    LET https_proxy == IF env.HTTPS_PROXY = NoURL THEN env.https_proxy
                       ELSE env.HTTPS_PROXY
    IN  IF https_proxy = NoURL THEN [kind |-> "nil"]
        ELSE NewConnectDialToProxy(https_proxy)

\* io.LimitReader(resp.Body, 500)
BodyLimit == 500

\* What the peer of a dial does: whether the dial succeeds, and the answer an
\* upstream proxy gives to the CONNECT it is sent: none that can be read, or
\* a status with a body of a length, which can or cannot be read to its end.
UpstreamAnswers ==
    {[read |-> FALSE, status |-> 0, body |-> 0, bodyOk |-> TRUE],
     [read |-> TRUE, status |-> 200, body |-> 0, bodyOk |-> TRUE]}
    \cup [read : {TRUE}, status : {407, 502}, body : {0, 22, 600}, bodyOk : BOOLEAN]

Peers == [dialOk : BOOLEAN, answer : UpstreamAnswers]

NoError == [text |-> "", body |-> 0]

\* proxy.dial(ctx, network, addr)
ProxyDial(addr, w) ==
    [conn |-> IF w.dialOk THEN [kind |-> "netconn", to |-> addr, tls |-> FALSE]
              ELSE [kind |-> "nil"],
     err |-> IF w.dialOk THEN NoError ELSE [text |-> "dial failed", body |-> 0],
     events |-> <<[ev |-> "dial", addr |-> addr]>>]

\* The function NewConnectDialToProxy returns, called with addr.
DialToProxy(dialer, addr, w) ==
    LET c == [kind |-> "netconn", to |-> dialer.Host, tls |-> dialer.tls]
        ev0 == <<[ev |-> "dial", addr |-> dialer.Host]>>
        ev1 == Append(ev0, [ev |-> "ConnectWrite", addr |-> addr])
        a == w.answer
        n == IF dialer.tls /\ a.body > BodyLimit THEN BodyLimit ELSE a.body
    IN  IF ~w.dialOk
        THEN [conn |-> [kind |-> "nil"], err |-> [text |-> "dial failed", body |-> 0],
              events |-> ev0]
        ELSE IF ~a.read
        THEN [conn |-> [kind |-> "nil"], err |-> [text |-> "read response failed", body |-> 0],
              events |-> Append(ev1, [ev |-> "Close", addr |-> dialer.Host])]
        ELSE IF a.status # 200
        THEN IF ~a.bodyOk
             THEN [conn |-> [kind |-> "nil"],
                   err |-> [text |-> "read body failed", body |-> 0], events |-> ev1]
             ELSE [conn |-> [kind |-> "nil"],
                   err |-> [text |-> "proxy refused connection", body |-> n],
                   events |-> Append(ev1, [ev |-> "Close", addr |-> dialer.Host])]
        ELSE [conn |-> c, err |-> NoError, events |-> ev1]

\* proxy.connectDial
connectDial(ConnectDialFn, addr, w) ==
    IF ConnectDialFn = [kind |-> "nil"] THEN ProxyDial(addr, w)
    ELSE DialToProxy(ConnectDialFn, addr, w)

\* ------------------------------------------------ regretable.Reader

\* Longest underlying stream, largest buffer, longest destination slice of one
\* Read, and the number of calls made on one Reader.
StreamLen == 4
MaxBuf == 3
MaxRead == 2
MaxCalls == 5

Min(a, b) == IF a < b THEN a ELSE b

\* The bytes of the underlying reader: byte i of the stream has value i.
Stream == [i \in 1..StreamLen |-> i]

\* NewReaderSize(r, size): nothing read from r, a zeroed buffer of size bytes.
NewReaderSize(size) ==
    [reader |-> 0, overflow |-> FALSE, r |-> 0, w |-> 0,
     buf |-> [i \in 1..size |-> 0], panics |-> FALSE]

\* rb.reader.Read(p) returning n bytes: the next n bytes of the stream, and
\* io.EOF when the stream is at its end and p is not empty.
UnderlyingRead(reader, n) ==
    [data |-> SubSeq(Stream, reader.reader + 1, reader.reader + n),
     err |-> IF n = 0 /\ reader.reader = StreamLen THEN "EOF" ELSE ""]

\* What rb.reader.Read(p) may return for a p of length len: at the end of the
\* stream or for an empty p nothing, else between one byte and all that fit.
UnderlyingCounts(reader, len) ==
    IF Min(len, StreamLen - reader.reader) = 0 THEN {0}
    ELSE 1..Min(len, StreamLen - reader.reader)

\* copy(rb.buf[rb.w:], data): as many bytes of data as fit after w.
CopyIntoBuf(buf, w, data) ==
    [i \in 1..Len(buf) |->
        IF i > w /\ i - w <= Len(data) THEN data[i - w] ELSE buf[i]]

\* Regret that leaves the read position where it is.
RegretKeepsPosition(reader) ==
    IF reader.overflow THEN [reader EXCEPT !.panics = TRUE] ELSE reader

\* Reader.Regret
Regret(reader) ==
    IF reader.overflow THEN [reader EXCEPT !.panics = TRUE]
    ELSE [reader EXCEPT !.r = 0]

\* Reader.Forget
Forget(reader) ==
    IF reader.overflow THEN [reader EXCEPT !.panics = TRUE]
    ELSE [reader EXCEPT !.r = 0, !.w = 0]

\* Reader.Read(p) for a p of length len, when the underlying reader, if it is
\* asked, returns n bytes.
Read(reader, len, n) ==
    IF reader.overflow
    THEN LET u == UnderlyingRead(reader, n)
         IN  [rb |-> [reader EXCEPT !.reader = @ + n], data |-> u.data, err |-> u.err]
    ELSE IF reader.r < reader.w
    THEN LET k == Min(len, reader.w - reader.r)
         IN  [rb |-> [reader EXCEPT !.r = @ + k],
              data |-> SubSeq(reader.buf, reader.r + 1, reader.r + k), err |-> ""]
    ELSE LET u == UnderlyingRead(reader, n)
             bn == Min(Len(reader.buf) - reader.w, n)
         IN  [rb |-> [reader EXCEPT !.reader = @ + n,
                                    !.buf = CopyIntoBuf(@, reader.w, u.data),
                                    !.w = reader.w + bn,
                                    !.r = reader.w + n,
                                    !.overflow = bn < n],
              data |-> u.data, err |-> u.err]

\* ---------------------------------------------------------------- state

VARIABLES
    reqHandlers,    \* proxy.reqHandlers: the registered request handlers, in order
    respHandlers,   \* proxy.respHandlers
    httpsHandlers,  \* proxy.httpsHandlers
    served,         \* the last plain-HTTP exchange ServeHTTP handled (Nil: none yet)
    conn,           \* the CONNECT handled: request in, request, action, host (Nil: none)
    cpc,            \* where the task that runs handleHttps is
    mpc,            \* where the TLS-MITM task is
    copies,         \* the two one-way copy tasks of an accepted CONNECT
    wg,             \* the wait group of the fallback splice
    joiner,         \* the task that waits for the wait group and closes
    client,         \* proxyClient, the hijacked client connection
    target,         \* targetSiteCon, the connection dialled (Nil: none)
    cevents,        \* what handleHttps did before its action's loop, and what the
                    \* copy tasks it started did, in order
    ievents,        \* what the current MITM loop iteration did, in order
    sess,           \* proxy.sess, the session counter
    inflight,       \* the requests admitted and not yet finished, in order of entry
    handled,        \* the CONNECTs handleHttps has handled, in order: host, action
                    \* and the hosts a leaf was signed for
    xlog,           \* the plain-HTTP requests served before the last one, in order
    environ,        \* the environment variables New() read
    ConnectDial,    \* proxy.ConnectDial (Nil: not set)
    dialled,        \* what the last call of proxy.connectDial did (Nil: no call)
    rb,             \* a regretable.Reader with its underlying reader (Nil: none)
    rcalls          \* the calls made on rb and what each Read delivered, in order

registry == <<reqHandlers, respHandlers, httpsHandlers>>

connVars == <<conn, cpc, mpc, copies, wg, joiner, client, target, cevents, ievents>>

sessVars == <<sess, inflight>>

dialVars == <<environ, ConnectDial, dialled>>

readerVars == <<rb, rcalls>>

vars == <<reqHandlers, respHandlers, httpsHandlers, served, conn, cpc, mpc, copies, wg,
          joiner, client, target, cevents, ievents, sess, inflight, handled, xlog,
          environ, ConnectDial, dialled, rb, rcalls>>

NumHandlers == Len(reqHandlers) + Len(respHandlers) + Len(httpsHandlers)

\* proxy := New(): no handler registered, nothing served.
InitProxy ==
    /\ reqHandlers = <<>>
    /\ respHandlers = <<>>
    /\ httpsHandlers = <<>>
    /\ ConnectDial = dialerFromEnv(environ)

\* ------------------------------------------------------- plain HTTP path

\* The engine hands (req, resp) to a handler chain.
ChainStart(chain, req, resp) ==
    [ev |-> "chain", chain |-> chain, req |-> req, resp |-> resp]

\* ServeHTTPRespond deleting Content-Length whether or not the body changed.
ServeHTTPRespondAlwaysDrops(respHs, r, resp, events) ==
    LET origBody == resp.body
        fr == filterResponse(respHs, r, resp)
    IN  [events |->
            events \o <<ChainStart("resp", r, resp)>> \o fr.log \o
            <<[ev |-> "WriteHeader", status |-> fr.resp.status,
               hdrs |-> HeaderDel(fr.resp.hdrs, "Content-Length"),
               resp |-> fr.resp.ptr],
              [ev |-> "CopyBody", body |-> fr.resp.body],
              [ev |-> "BodyClose", body |-> fr.resp.body],
              [ev |-> "BodyClose", body |-> origBody]>>]

\* ServeHTTP from "origBody := resp.Body" on: the response chain, then the
\* response is written to the client and the bodies are closed.
ServeHTTPRespond(respHs, r, resp, events) ==
    LET origBody == resp.body
        fr == filterResponse(respHs, r, resp)
        hdrs == IF origBody # fr.resp.body
                THEN HeaderDel(fr.resp.hdrs, "Content-Length")
                ELSE fr.resp.hdrs
    IN  [events |->
            events \o <<ChainStart("resp", r, resp)>> \o fr.log \o
            <<[ev |-> "WriteHeader", status |-> fr.resp.status, hdrs |-> hdrs,
               resp |-> fr.resp.ptr],
              [ev |-> "CopyBody", body |-> fr.resp.body],
              [ev |-> "BodyClose", body |-> fr.resp.body],
              [ev |-> "BodyClose", body |-> origBody]>>]

\* ServeHTTP writing the 500 after a failed round trip whatever the response
\* chain returned.
ServeHTTPPlainAlways500(reqHs, respHs, r0, rt) ==
    LET r == requestWithContext(r0)
    IN  IF ~IsAbs(r) THEN [events |-> <<[ev |-> "NonproxyHandler", req |-> r]>>]
        ELSE
        LET fq == filterRequest(reqHs, r)
            ev0 == <<ChainStart("req", r, Nil)>> \o fq.log
        IN  IF fq.resp # Nil THEN ServeHTTPRespond(respHs, fq.req, fq.resp, ev0)
            ELSE
            LET out == removeProxyHeaders(fq.req)
                res == RoundTrip(rt, out)
                ev1 == Append(ev0, [ev |-> "RoundTrip", req |-> out])
            IN  IF res.err # ""
                THEN LET r2 == SetCtxError(out, res.err)
                         fe == filterResponse(respHs, r2, Nil)
                     IN  [events |->
                             ev1 \o <<ChainStart("resp", r2, Nil)>> \o fe.log \o
                             <<[ev |-> "Error", status |-> 500, msg |-> res.err]>>]
                ELSE ServeHTTPRespond(respHs, out, res.resp, ev1)

\* ServeHTTP for a non-CONNECT request r, with a round-tripper behaving as rt:
\* everything the engine does for the request, in order.
ServeHTTPPlain(reqHs, respHs, r0, rt) ==
    LET r == requestWithContext(r0)
    IN  IF ~IsAbs(r) THEN [events |-> <<[ev |-> "NonproxyHandler", req |-> r]>>]
        ELSE
        LET fq == filterRequest(reqHs, r)
            ev0 == <<ChainStart("req", r, Nil)>> \o fq.log
        IN  IF fq.resp # Nil THEN ServeHTTPRespond(respHs, fq.req, fq.resp, ev0)
            ELSE
            LET out == removeProxyHeaders(fq.req)
                got == CtxRoundTripper(out)
                res == RoundTrip(rt, out)
                ev1 == Append(ev0, [ev |-> "RoundTrip", req |-> out, via |-> got.rt])
            IN  IF got.panics
                THEN [events |-> Append(ev0, [ev |-> "Panic", in |-> "CtxRoundTripper",
                                              req |-> out])]
                ELSE IF res.err # ""
                THEN LET r2 == SetCtxError(out, res.err)
                         fe == filterResponse(respHs, r2, Nil)
                         ev2 == ev1 \o <<ChainStart("resp", r2, Nil)>> \o fe.log
                     IN  IF fe.resp = Nil
                         THEN [events |->
                                 Append(ev2, [ev |-> "Error", status |-> 500,
                                              msg |-> res.err])]
                         ELSE ServeHTTPRespond(respHs, fe.req, fe.resp, ev2)
                ELSE ServeHTTPRespond(respHs, out, res.resp, ev1)

\* proxy.OnRequest(conds...).Do(h)
OnRequestDo(conds, beh) ==
    /\ served = Nil /\ conn = Nil
    /\ NumHandlers < MaxHandlers
    /\ reqHandlers' = Append(reqHandlers, [reqConds |-> conds, beh |-> beh])
    /\ UNCHANGED <<readerVars, dialVars, xlog, handled, sessVars, respHandlers, httpsHandlers, served, connVars>>

\* proxy.OnResponse(conds...).Do(h)
OnResponseDo(conds, beh) ==
    /\ served = Nil /\ conn = Nil
    /\ NumHandlers < MaxHandlers
    /\ respHandlers' = Append(respHandlers,
                              [reqConds |-> <<>>, respCond |-> conds, beh |-> beh])
    /\ UNCHANGED <<readerVars, dialVars, xlog, handled, sessVars, reqHandlers, httpsHandlers, served, connVars>>

\* The server calls proxy.ServeHTTP(w, r) with a non-CONNECT request.  The
\* plain path keeps nothing from one exchange to the next, so a behaviour
\* follows one exchange of the configured proxy.
ServeHTTP(r, rt) ==
    /\ served = Nil
    /\ served' = [in |-> r, rt |-> rt] @@ ServeHTTPPlain(reqHandlers, respHandlers, r, rt)
    /\ UNCHANGED <<readerVars, dialVars, xlog, handled, sessVars, registry, connVars>>

\* A connection nobody has written to or closed.
NewConn == [kind |-> "conn", Close |-> 0, CloseRead |-> 0, CloseWrite |-> 0, written |-> <<>>]

\* No request has arrived.
InitNoRequest ==
    /\ served = Nil
    /\ conn = Nil
    /\ cpc = "idle"
    /\ mpc = "none"
    /\ copies = [c2t |-> "none", t2c |-> "none"]
    /\ wg = 0
    /\ joiner = "none"
    /\ client = NewConn
    /\ target = Nil
    /\ cevents = <<>>
    /\ ievents = <<>>
    /\ sess = 0
    /\ inflight = <<>>
    /\ handled = <<>>
    /\ xlog = <<>>
    /\ dialled = Nil

\* No request has arrived and no Reader was made.
InitIdle == InitNoRequest /\ rb = Nil /\ rcalls = <<>>

\* The proxy is constructed with neither HTTPS_PROXY nor https_proxy set.
InitHttp == environ = NoEnviron /\ InitProxy /\ InitIdle

NextHttp ==
    \/ \E conds \in ReqGuards, beh \in ReqBehaviours : OnRequestDo(conds, beh)
    \/ \E conds \in RespGuards, beh \in RespBehaviours : OnResponseDo(conds, beh)
    \/ \E r \in PlainRequests, rt \in RoundTripKinds : ServeHTTP(r, rt)

SpecHttp == InitHttp /\ [][NextHttp]_vars

\* ------------------------------------------------- CONNECT dispatcher

\* &ConnectAction{Action, Hijack, TLSConfig}: Hijack and TLSConfig say whether
\* the callback is set.
ConnectAction(action, hijack, tlsConfig) ==
    [kind |-> "action", Action |-> action, Hijack |-> hijack, TLSConfig |-> tlsConfig]

OkConnect == ConnectAction("ConnectAccept", FALSE, TRUE)

MitmConnect == ConnectAction("ConnectMitm", FALSE, TRUE)

HTTPMitmConnect == ConnectAction("ConnectHTTPMitm", FALSE, TRUE)

RejectConnect == ConnectAction("ConnectReject", FALSE, TRUE)

\* The host a declining wrapper returns: "".
NoHost == UrlHost("", "")

\* "CONNECT name:443 HTTP/1.1": the URL is its host, and so is r.Host.
ConnectRequests ==
    {NewRequest(1, "", UrlHost(n, "443"), UrlHost(n, "443"), ra, {"User-Agent"}) :
        n \in HostNames, ra \in RemoteAddrs}

\* What a registered HTTPSHandler does with (req, host):
\*   AlwaysMitm, AlwaysReject : the package's handlers
\*   ok, httpmitm             : return OkConnect, HTTPMitmConnect
\*   hijack                   : the handler HijackConnect(f) makes
\*   proxyauth                : returns a ConnectProxyAuthHijack action
\*   rejectresp               : stores a response in the context, rejects
\*   decline                  : returns a nil action
ConnectBehaviours ==
    {"AlwaysMitm", "AlwaysReject", "ok", "httpmitm", "hijack", "proxyauth",
     "rejectresp", "decline"}

HandleConnect(beh, req, host) ==
    CASE beh = "AlwaysMitm" -> [req |-> req, action |-> MitmConnect, host |-> host]
      [] beh = "AlwaysReject" -> [req |-> req, action |-> RejectConnect, host |-> host]
      [] beh = "ok" -> [req |-> req, action |-> OkConnect, host |-> host]
      [] beh = "httpmitm" -> [req |-> req, action |-> HTTPMitmConnect, host |-> host]
      [] beh = "hijack" ->
            [req |-> req, action |-> ConnectAction("ConnectHijack", TRUE, FALSE),
             host |-> host]
      [] beh = "proxyauth" ->
            [req |-> req, action |-> ConnectAction("ConnectProxyAuthHijack", TRUE, FALSE),
             host |-> host]
      [] beh = "rejectresp" ->
            [req |-> [req EXCEPT !.ptr = @ + 1, !.ctx.Resp = CannedResponse],
             action |-> RejectConnect, host |-> host]
      [] OTHER -> [req |-> req, action |-> Nil, host |-> host]

\* The closure ReqProxyConds.HandleConnect registers.
ReqProxyCondsHandleConnect(h, req, host) ==
    IF ~ReqCondsMatch(h.reqConds, req)
    THEN [req |-> req, action |-> Nil, host |-> NoHost, invoked |-> FALSE]
    ELSE [req |-> HandleConnect(h.beh, req, host).req,
          action |-> HandleConnect(h.beh, req, host).action,
          host |-> HandleConnect(h.beh, req, host).host,
          invoked |-> TRUE]

\* One call of a registered CONNECT handler by handleHttps.
ConnectCall(i, h, inReq, inHost, out) ==
    [ev |-> "connect", idx |-> i, h |-> h, inReq |-> inReq, inHost |-> inHost,
     outReq |-> out.req, action |-> out.action, outHost |-> out.host,
     invoked |-> out.invoked]

RECURSIVE connectLoopLastWins(_, _, _, _, _)
\* The loop over proxy.httpsHandlers without its break: every handler is
\* consulted and the last non-nil action stays.
connectLoopLastWins(hs, i, r, host, log) ==
    IF i > Len(hs) THEN [req |-> r, todo |-> OkConnect, host |-> host, log |-> log]
    ELSE LET out == ReqProxyCondsHandleConnect(hs[i], r, host)
             log2 == Append(log, ConnectCall(i, hs[i], r, host, out))
             rest == connectLoopLastWins(hs, i + 1, out.req, host, log2)
         IN  IF out.action # Nil /\ \A k \in (i + 1)..Len(hs) : rest.log[k].action = Nil
             THEN [rest EXCEPT !.todo = out.action, !.host = out.host]
             ELSE rest

RECURSIVE connectLoop(_, _, _, _, _)
\* "todo, host := OkConnect, r.URL.Host" and the loop over proxy.httpsHandlers
\* from handler i on.
connectLoop(hs, i, r, host, log) ==
    IF i > Len(hs) THEN [req |-> r, todo |-> OkConnect, host |-> host, log |-> log]
    ELSE LET out == ReqProxyCondsHandleConnect(hs[i], r, host)
             log2 == Append(log, ConnectCall(i, hs[i], r, host, out))
         IN  IF out.action # Nil
             THEN [req |-> out.req, todo |-> out.action, host |-> out.host, log |-> log2]
             ELSE connectLoop(hs, i + 1, out.req, host, log2)

\* hasPort.MatchString(host)
hasPort(host) == host.port # ""

Line200 == "HTTP/1.0 200 OK\r\n\r\n"

Line407 == "HTTP/1.1 407 Proxy Authentication Required\r\n"

Line502 == "HTTP/1.1 502 Bad Gateway\r\n\r\n"

\* c.Write(bytes)
ConnWrite(c, bytes) == [c EXCEPT !.written = Append(@, bytes)]

\* c.Close()
ConnClose(c) == [c EXCEPT !.Close = @ + 1]

\* proxy.httpError(w, err)
httpError(w) == ConnClose(ConnWrite(w, Line502))

\* CtxResp(r.Context()) != nil: the response stored in the context; the getter
\* panics when none was stored.
CtxRespPanics(r) == r.ctx.Resp = Nil

\* What handleHttps leaves when it has done nothing after the dispatch.
AfterDispatch(d) ==
    [conn |-> [r |-> d.req, todo |-> d.todo, host |-> d.host, splice |-> "none"],
     cpc |-> "returned", mpc |-> "none",
     copies |-> [c2t |-> "none", t2c |-> "none"], wg |-> 0, joiner |-> "none",
     client |-> NewConn, target |-> Nil, cevents |-> d.log]

\* case ConnectAccept with the 200 line written before the dial.
AcceptCaseOkFirst(d, env) ==
    LET host == IF ~hasPort(d.host) THEN [d.host EXCEPT !.port = "80"] ELSE d.host
        base == [AfterDispatch(d) EXCEPT
                    !.client = ConnWrite(@, Line200),
                    !.cevents = Append(@, [ev |-> "Dial", addr |-> host,
                                           ok |-> env.dialOk])]
    IN  IF ~env.dialOk THEN [base EXCEPT !.client = httpError(@)]
        ELSE [base EXCEPT !.target = NewConn, !.conn.splice = "halfclose",
                          !.copies = [c2t |-> "running", t2c |-> "running"]]

\* case ConnectAccept
AcceptCase(d, env) ==
    LET host == IF ~hasPort(d.host) THEN [d.host EXCEPT !.port = "80"] ELSE d.host
        base == [AfterDispatch(d) EXCEPT
                    !.cevents = Append(@, [ev |-> "Dial", addr |-> host,
                                           ok |-> env.dialOk])]
    IN  IF ~env.dialOk THEN [base EXCEPT !.client = httpError(@)]
        ELSE IF env.targetOK /\ env.clientOK
        THEN [base EXCEPT !.client = ConnWrite(@, Line200), !.target = NewConn,
                          !.conn.splice = "halfclose",
                          !.copies = [c2t |-> "running", t2c |-> "running"]]
        ELSE [base EXCEPT !.client = ConnWrite(@, Line200), !.target = NewConn,
                          !.conn.splice = "fallback",
                          !.copies = [c2t |-> "running", t2c |-> "running"],
                          !.wg = 2, !.joiner = "waiting"]

\* case ConnectHijack followed by a close of the client connection.
HijackCaseCloses(d) ==
    [AfterDispatch(d) EXCEPT
        !.client = ConnClose(ConnWrite(@, Line200)),
        !.cevents = Append(@, [ev |-> "Hijack", req |-> d.req,
                                 client |-> "proxyClient"])]

\* case ConnectHijack running the request chain on the CONNECT request.
HijackCaseFilters(d) ==
    [AfterDispatch(d) EXCEPT
        !.client = ConnWrite(@, Line200),
        !.cevents = (Append(@, ChainStart("req", d.req, Nil))
                        \o filterRequest(reqHandlers, d.req).log)
                    \o <<[ev |-> "Hijack", req |-> d.req, client |-> "proxyClient"]>>]

\* case ConnectHijack
HijackCase(d) ==
    [AfterDispatch(d) EXCEPT
        !.client = ConnWrite(@, Line200),
        !.cevents = Append(@, [ev |-> "Hijack", req |-> d.req,
                                 client |-> "proxyClient"])]

\* case ConnectProxyAuthHijack
ProxyAuthHijackCase(d) ==
    [AfterDispatch(d) EXCEPT
        !.client = ConnWrite(@, Line407),
        !.cevents = Append(@, [ev |-> "Hijack", req |-> d.req,
                                 client |-> "proxyClient"])]

\* case ConnectHTTPMitm, up to its loop
HTTPMitmCase(d, env) ==
    LET base == [AfterDispatch(d) EXCEPT
                    !.client = ConnWrite(@, Line200),
                    !.cevents = Append(@, [ev |-> "Dial", addr |-> d.host,
                                           ok |-> env.dialOk])]
    IN  IF ~env.dialOk THEN base
        ELSE [base EXCEPT !.target = NewConn, !.cpc = "httpmitm"]

\* case ConnectMitm going on to "go func()" after an error of the factory.
MitmCaseIgnoresError(d, env) ==
    LET base == [AfterDispatch(d) EXCEPT !.client = ConnWrite(@, Line200)]
    IN  IF ~d.todo.TLSConfig THEN [base EXCEPT !.mpc = "handshake"]
        ELSE [base EXCEPT
                !.cevents = Append(@, [ev |-> "signHost", host |-> d.host.name,
                                       ok |-> env.signOk]),
                !.mpc = "handshake"]

\* case ConnectMitm doing the handshake and the loop in the accepting task.
MitmCaseInline(d, env) ==
    LET base == [AfterDispatch(d) EXCEPT !.client = ConnWrite(@, Line200)]
    IN  IF ~d.todo.TLSConfig THEN [base EXCEPT !.mpc = "handshake", !.cpc = "mitm"]
        ELSE LET signed == [base EXCEPT
                              !.cevents = Append(@, [ev |-> "signHost",
                                                     host |-> d.host.name,
                                                     ok |-> env.signOk])]
             IN  IF ~env.signOk THEN [signed EXCEPT !.client = httpError(@)]
                 ELSE [signed EXCEPT !.mpc = "handshake", !.cpc = "mitm"]

\* case ConnectMitm, up to "go func()"
MitmCase(d, env) ==
    LET base == [AfterDispatch(d) EXCEPT !.client = ConnWrite(@, Line200)]
    IN  IF ~d.todo.TLSConfig THEN [base EXCEPT !.mpc = "handshake"]
        ELSE LET signed == [base EXCEPT
                              !.cevents = Append(@, [ev |-> "signHost",
                                                     host |-> d.host.name,
                                                     ok |-> env.signOk])]
             IN  IF ~env.signOk THEN [signed EXCEPT !.client = httpError(@)]
                 ELSE [signed EXCEPT !.mpc = "handshake"]

\* case ConnectReject
RejectCase(d) ==
    IF CtxRespPanics(d.req) THEN [AfterDispatch(d) EXCEPT !.cpc = "panicked"]
    ELSE [AfterDispatch(d) EXCEPT
            !.client = ConnClose(ConnWrite(@, [resp |-> d.req.ctx.Resp]))]

\* handleHttps(w, r) until it returns or enters the HTTPMitm loop.  env is
\* what the world answers: whether the dial succeeds, whether each endpoint
\* can half-close, whether the leaf certificate can be signed.
handleHttpsResult(hs, r0, env) ==
    LET r == requestWithContext(r0)
        d == connectLoop(hs, 1, r, r.host, <<>>)
    IN  CASE d.todo.Action = "ConnectAccept" -> AcceptCase(d, env)
          [] d.todo.Action = "ConnectHijack" -> HijackCase(d)
          [] d.todo.Action = "ConnectHTTPMitm" -> HTTPMitmCase(d, env)
          [] d.todo.Action = "ConnectMitm" -> MitmCase(d, env)
          [] d.todo.Action = "ConnectProxyAuthHijack" -> ProxyAuthHijackCase(d)
          [] OTHER -> RejectCase(d)

Envs == [dialOk : BOOLEAN, targetOK : BOOLEAN, clientOK : BOOLEAN, signOk : BOOLEAN]

\* The hosts the TLS-config factory signed a leaf for while handleHttps ran.
SignedHosts(events) ==
    LET IsSign(e) == e.ev = "signHost"
        signs == SelectSeq(events, IsSign)
    IN  [k \in 1..Len(signs) |-> signs[k].host]

\* Everything one call of handleHttps(w, r) does before it returns or enters
\* the HTTPMitm loop.
handleHttpsStep(r, env) ==
    /\ LET res == handleHttpsResult(httpsHandlers, r, env)
       IN  /\ conn' = [in |-> r] @@ res.conn
           /\ cpc' = res.cpc
           /\ mpc' = res.mpc
           /\ copies' = res.copies
           /\ wg' = res.wg
           /\ joiner' = res.joiner
           /\ client' = res.client
           /\ target' = res.target
           /\ cevents' = res.cevents
           /\ handled' = Append(handled, [host |-> r.host,
                                          action |-> res.conn.todo.Action,
                                          signed |-> SignedHosts(res.cevents)])
    /\ ievents' = <<>>
    /\ UNCHANGED <<readerVars, environ, ConnectDial, xlog, sessVars, registry, served>>

\* The server calls proxy.ServeHTTP(w, r) with a CONNECT request.
handleHttps(r, env) ==
    /\ served = Nil /\ conn = Nil
    /\ cpc = "idle"
    /\ handleHttpsStep(r, env)
    /\ UNCHANGED dialled

\* proxy.OnRequest(conds...).HandleConnect(h)
OnRequestHandleConnect(conds, beh) ==
    /\ served = Nil /\ conn = Nil
    /\ NumHandlers < MaxHandlers
    /\ httpsHandlers' = Append(httpsHandlers, [reqConds |-> conds, beh |-> beh])
    /\ UNCHANGED <<readerVars, dialVars, xlog, handled, sessVars, reqHandlers, respHandlers, served, connVars>>

\* --------------------------------------------------------- stream splicer

\* The endpoints of a one-way copy: client to target, or target to client.
CopyDirs == {"c2t", "t2c"}

\* A wait that returns as soon as one task has signalled.
WaitGroupWaitAny(counter) == counter <= 1

\* wg.Wait() returns when the counter is zero.
WaitGroupWait(counter) == counter = 0

\* The connection a one-way copy reads from, and the one it writes to.
CopySrc(dir) == IF dir = "c2t" THEN "client" ELSE "target"

CopyDst(dir) == IF dir = "c2t" THEN "target" ELSE "client"

\* io.Copy(dst, src) of a copy task returns, with an error (which is logged)
\* or without.  copyOrWarn then signals the wait group.
CopyReturns(dir) ==
    /\ copies[dir] = "running"
    /\ IF conn.splice = "halfclose"
       THEN /\ copies' = [copies EXCEPT ![dir] = "copied"]
            /\ wg' = wg
       ELSE /\ copies' = [copies EXCEPT ![dir] = "done"]
            /\ wg' = wg - 1
    /\ \E err \in BOOLEAN :
           cevents' = Append(cevents, [ev |-> "io.Copy", by |-> dir, err |-> err])
    /\ UNCHANGED <<readerVars, dialVars, xlog, handled, sessVars, registry, served, conn, cpc, mpc, joiner, client, target,
                   ievents>>

\* The two calls copyAndClose makes after its copy, in order.
CloseCalls(dir) ==
    <<[ev |-> "CloseWrite", conn |-> CopyDst(dir), by |-> dir],
      [ev |-> "CloseRead", conn |-> CopySrc(dir), by |-> dir]>>

\* copyAndClose calling src.CloseRead() before dst.CloseWrite().
CopyAndCloseClosesReadFirst(dir) ==
    /\ copies[dir] = "copied"
    /\ copies' = [copies EXCEPT ![dir] = "done"]
    /\ IF dir = "c2t"
       THEN /\ target' = [target EXCEPT !.CloseWrite = @ + 1]
            /\ client' = [client EXCEPT !.CloseRead = @ + 1]
       ELSE /\ client' = [client EXCEPT !.CloseWrite = @ + 1]
            /\ target' = [target EXCEPT !.CloseRead = @ + 1]
    /\ cevents' = cevents \o <<CloseCalls(dir)[2], CloseCalls(dir)[1]>>
    /\ UNCHANGED <<readerVars, dialVars, xlog, handled, sessVars, registry, served, conn, cpc, mpc, wg, joiner, ievents>>

\* copyAndClose without its src.CloseRead().
CopyAndCloseClosesWriteOnly(dir) ==
    /\ copies[dir] = "copied"
    /\ copies' = [copies EXCEPT ![dir] = "done"]
    /\ IF dir = "c2t"
       THEN /\ target' = [target EXCEPT !.CloseWrite = @ + 1]
            /\ client' = client
       ELSE /\ client' = [client EXCEPT !.CloseWrite = @ + 1]
            /\ target' = target
    /\ cevents' = Append(cevents, CloseCalls(dir)[1])
    /\ UNCHANGED <<readerVars, dialVars, xlog, handled, sessVars, registry, served, conn, cpc, mpc, wg, joiner, ievents>>

\* copyAndClose after its copy: dst.CloseWrite(), then src.CloseRead().
CopyAndCloseCloses(dir) ==
    /\ copies[dir] = "copied"
    /\ copies' = [copies EXCEPT ![dir] = "done"]
    /\ IF dir = "c2t"
       THEN /\ target' = [target EXCEPT !.CloseWrite = @ + 1]
            /\ client' = [client EXCEPT !.CloseRead = @ + 1]
       ELSE /\ client' = [client EXCEPT !.CloseWrite = @ + 1]
            /\ target' = [target EXCEPT !.CloseRead = @ + 1]
    /\ cevents' = cevents \o CloseCalls(dir)
    /\ UNCHANGED <<readerVars, dialVars, xlog, handled, sessVars, registry, served, conn, cpc, mpc, wg, joiner, ievents>>

\* The fallback's task after wg.Wait(): proxyClient.Close(), targetSiteCon.Close().
SpliceJoin ==
    /\ joiner = "waiting"
    /\ WaitGroupWait(wg)
    /\ joiner' = "done"
    /\ client' = ConnClose(client)
    /\ target' = ConnClose(target)
    /\ UNCHANGED <<readerVars, dialVars, xlog, handled, sessVars, registry, served, conn, cpc, mpc, copies, wg, cevents, ievents>>

\* ----------------------------------------------------- intercepted tunnels

\* The header sets a request inside a tunnel may carry.
InnerHeaders == {{"User-Agent"}, {"User-Agent", "Proxy-Connection"}}

\* A request read from inside a tunnel has no RemoteAddr of its own.
NoRemote == [ip |-> "", port |-> ""]

\* "OPTIONS * HTTP/1.1": the URL http.ReadRequest yields has the path "*".
StarRequest ==
    [NewRequest(10, "", UrlHost("", ""), UrlHost("example.com", ""), NoRemote,
                {"User-Agent"}) EXCEPT !.path = "*"]

\* What http.ReadRequest yields inside a tunnel: "GET /path" with a Host
\* header, a request line with an absolute https URL, or "OPTIONS *".
InnerRequests ==
    {NewRequest(10, "", UrlHost("", ""), UrlHost(n, ""), NoRemote, hs) :
        n \in HostNames, hs \in InnerHeaders}
    \cup
    {NewRequest(10, "https", UrlHost(n, ""), UrlHost(n, ""), NoRemote, {"User-Agent"}) :
        n \in HostNames}
    \cup {StarRequest}

\* httpsRegexp.MatchString(req.URL.String())
httpsRegexp(q) == q.scheme = "https"

\* The writes that carry one response to the TLS client, in program order.
ResponseWrites == <<"StatusLine", "Header", "CRLF", "Body", "ChunkedClose", "CRLF">>

\* The header rewrite without its Del("Content-Length").
MitmResponseHeaderKeepsLength(hdrs) ==
    HeaderSet(HeaderSet(hdrs, "Transfer-Encoding", "chunked"), "Connection", "close")

\* resp.Header after Del("Content-Length"), Set("Transfer-Encoding", "chunked")
\* and Set("Connection", "close").
MitmResponseHeader(hdrs) ==
    HeaderSet(HeaderSet(HeaderDel(hdrs, "Content-Length"),
                        "Transfer-Encoding", "chunked"),
              "Connection", "close")

\* One successful write on rawClientTls: the k-th of ResponseWrites.
TlsWrite(k, resp) ==
    CASE k = 1 -> [ev |-> "TlsWrite", w |-> ResponseWrites[k], proto |-> "HTTP/1.1",
                   status |-> resp.status]
      [] k = 2 -> [ev |-> "TlsWrite", w |-> ResponseWrites[k],
                   hdrs |-> MitmResponseHeader(resp.hdrs)]
      [] k = 4 -> [ev |-> "TlsWrite", w |-> ResponseWrites[k], body |-> resp.body]
      [] OTHER -> [ev |-> "TlsWrite", w |-> ResponseWrites[k]]

\* The response writes of one iteration; failAt = k > 0: the k-th write
\* returns an error and the task returns; failAt = 0: all succeed.
MitmWriteResponse(resp, failAt) ==
    [k \in 1..(IF failAt = 0 THEN Len(ResponseWrites) ELSE failAt - 1) |->
        TlsWrite(k, resp)]

\* req.URL, err = url.Parse("https://" + r.Host + req.URL.String()): the
\* outer host followed by a path that starts with "/" parses; followed by "*"
\* the port is invalid, url.Parse returns (nil, err) and req.URL is nil.
RewriteURL(q, r) ==
    IF q.path = "*"
    THEN [q EXCEPT !.URL = FALSE, !.scheme = "", !.host = NoHost, !.path = ""]
    ELSE [q EXCEPT !.scheme = "https", !.host = r.Host]

\* The conditions the wrapper of a handler call evaluates, in order.
CallConds(e) ==
    IF e.chain = "resp" THEN e.h.reqConds \o e.h.respCond ELSE e.h.reqConds

\* The wrapper of the handler call evaluates a condition that reads
\* req.URL.Host while req.URL is nil: a nil dereference.
HandlerPanics(e) ==
    /\ ~e.inReq.URL
    /\ \E i \in 1..Len(CallConds(e)) :
           /\ CallConds(e)[i].cond \in {"DstHostIs", "NotDstHostIs"}
           /\ \A k \in 1..(i - 1) : HandleResp(CallConds(e)[k], e.inReq, e.inResp)

\* What of an iteration happens when one of its steps panics: the events
\* before the first handler call that panics.
CutAtPanic(it) ==
    LET bad == {j \in 1..Len(it.events) :
                   it.events[j].ev = "handler" /\ HandlerPanics(it.events[j])}
    IN  IF bad = {} THEN it
        ELSE LET j == CHOOSE j \in bad : \A k \in bad : j <= k
             IN  [events |-> Append(SubSeq(it.events, 1, j - 1), [ev |-> "Panic"]),
                  goesOn |-> FALSE, panics |-> TRUE]

\* One iteration of the TLS-MITM loop for a request q0 read from the tunnel of
\* CONNECT request r: what the task does, in order, and whether it goes on.
MitmIteration(reqHs, respHs, r, q0, rt, failAt) ==
    LET q1 == [requestWithContext(q0) EXCEPT !.remote = r.remote]
        q == IF ~httpsRegexp(q1) THEN RewriteURL(q1, r) ELSE q1
        fq == filterRequest(reqHs, q)
        ev0 == <<[ev |-> "ReadRequest", req |-> q0], ChainStart("req", q, Nil)>> \o fq.log
        out == removeProxyHeaders(fq.req)
        res == RoundTrip(rt, out)
        ev1 == IF fq.resp # Nil THEN ev0
               ELSE Append(ev0, [ev |-> "RoundTrip", req |-> out])
        req == IF fq.resp # Nil THEN fq.req ELSE out
        resp == IF fq.resp # Nil THEN fq.resp ELSE res.resp
    IN  CutAtPanic(
        IF fq.resp = Nil /\ ~q.URL
        THEN \* "if err != nil": the log line reads req.URL.Path
             [events |-> Append(ev0, [ev |-> "Panic"]), goesOn |-> FALSE,
              panics |-> TRUE]
        ELSE IF fq.resp = Nil /\ res.err # ""
        THEN [events |-> ev1, goesOn |-> FALSE, panics |-> FALSE]
        ELSE LET fr == filterResponse(respHs, req, resp)
             IN  [events |-> ev1 \o <<ChainStart("resp", req, resp)>> \o fr.log \o
                             MitmWriteResponse(fr.resp, failAt),
                  goesOn |-> failAt = 0, panics |-> FALSE])

\* rawClientTls.Handshake() returns in the task handleHttps started.
MitmHandshake(ok) ==
    /\ mpc = "handshake"
    /\ mpc' = IF ok THEN "loop" ELSE "done"
    /\ ievents' = IF ok THEN ievents ELSE <<[ev |-> "HandshakeError"]>>
    /\ UNCHANGED <<readerVars, dialVars, xlog, handled, sessVars, registry, served, conn, cpc, copies, wg, joiner, client, target,
                   cevents>>

\* isEof(clientTlsReader): the loop ends and the deferred Close runs.
MitmEof ==
    /\ mpc = "loop"
    /\ mpc' = "done"
    /\ client' = ConnClose(client)
    /\ ievents' = <<[ev |-> "EOF"]>>
    /\ UNCHANGED <<readerVars, dialVars, xlog, handled, sessVars, registry, served, conn, cpc, copies, wg, joiner, target, cevents>>

\* http.ReadRequest fails: req is nil and requestWithContext(req) panics; the
\* deferred Close runs while the panic unwinds.
MitmReadError ==
    /\ mpc = "loop"
    /\ mpc' = "panicked"
    /\ client' = ConnClose(client)
    /\ ievents' = <<[ev |-> "ReadRequestError"]>>
    /\ UNCHANGED <<readerVars, dialVars, xlog, handled, sessVars, registry, served, conn, cpc, copies, wg, joiner, target, cevents>>

\* The loop body for a request that was read.  When a step panics the
\* deferred Close runs while the panic unwinds.
MitmServe(q, rt, failAt) ==
    /\ mpc = "loop"
    /\ LET it == MitmIteration(reqHandlers, respHandlers, conn.r, q, rt, failAt)
       IN  /\ ievents' = it.events
           /\ mpc' = IF it.panics THEN "panicked"
                     ELSE IF it.goesOn THEN "loop" ELSE "done"
           /\ client' = IF it.goesOn THEN client ELSE ConnClose(client)
    /\ UNCHANGED <<readerVars, dialVars, xlog, handled, sessVars, registry, served, conn, cpc, copies, wg, joiner, target, cevents>>

\* What the upstream connection and the client connection of an HTTPMitm
\* tunnel do in one iteration.
UpstreamKinds == {"html", "json", "writeFails", "readFails"}

\* One iteration of the HTTPMitm loop for a request q read from the client.
HTTPMitmIteration(reqHs, respHs, q, up, clientWriteOk) ==
    LET fq == filterRequest(reqHs, q)
        ev0 == <<[ev |-> "ReadRequest", req |-> q], ChainStart("req", q, Nil)>> \o fq.log
        ev1 == IF fq.resp # Nil \/ up = "writeFails" THEN ev0
               ELSE Append(ev0, [ev |-> "ReqWrite", req |-> fq.req])
        resp == IF fq.resp # Nil THEN fq.resp ELSE RoundTrip(up, fq.req).resp
    IN  IF fq.resp = Nil /\ up \in {"writeFails", "readFails"}
        THEN [events |-> ev1, goesOn |-> FALSE]
        ELSE LET fr == filterResponse(respHs, fq.req, resp)
                 ev2 == ev1 \o <<ChainStart("resp", fq.req, resp)>> \o fr.log
             IN  [events |-> IF clientWriteOk
                             THEN Append(ev2, [ev |-> "RespWrite", resp |-> fr.resp])
                             ELSE ev2,
                  goesOn |-> clientWriteOk]

\* http.ReadRequest fails in the HTTPMitm loop (end of input included): req is
\* nil and req.Context() panics.
HTTPMitmReadError ==
    /\ cpc = "httpmitm"
    /\ cpc' = "panicked"
    /\ ievents' = <<[ev |-> "ReadRequestError"]>>
    /\ UNCHANGED <<readerVars, dialVars, xlog, handled, sessVars, registry, served, conn, mpc, copies, wg, joiner, client, target,
                   cevents>>

\* The HTTPMitm loop body for a request that was read.
HTTPMitmServe(q, up, clientWriteOk) ==
    /\ cpc = "httpmitm"
    /\ LET it == HTTPMitmIteration(reqHandlers, respHandlers, q, up, clientWriteOk)
       IN  /\ ievents' = it.events
           /\ cpc' = IF it.goesOn THEN "httpmitm" ELSE "returned"
           /\ client' = IF it.goesOn THEN client ELSE httpError(client)
    /\ UNCHANGED <<readerVars, dialVars, xlog, handled, sessVars, registry, served, conn, mpc, copies, wg, joiner, target, cevents>>

\* ------------------------------------------------- the proxy on CONNECT

\* Handlers registered on one proxy that serves a tunnel.
MaxConnectHandlers == 2

\* Guards that can hold for a CONNECT request and for the requests inside a
\* TLS-MITM tunnel, whose URL host carries the port.
ConnectGuards ==
    {<<>>,
     <<CondDstHostIs(UrlHost("example.com", "443"))>>,
     <<CondDstHostIs(UrlHost("example.com", "443")), CondSrcIpIs("10.0.0.1")>>}

\* The CONNECT registrations explored: every behaviour unguarded, the
\* package's handlers guarded.
ConnectRegistrations ==
    ({<<>>} \X ConnectBehaviours)
    \cup ((ConnectGuards \ {<<>>}) \X {"AlwaysReject", "AlwaysMitm"})

RequestRegistrations ==
    ({<<>>} \X {"replace", "canned"}) \cup ((ConnectGuards \ {<<>>}) \X {"canned"})

ResponseRegistrations ==
    ({<<>>, <<CondContentTypeIs("text/html")>>} \X {"rewrite"})
    \cup {<<<<CondContentTypeIs("text/html"),
              CondDstHostIs(UrlHost("example.com", "443"))>>, "newreq">>}

NextConnect ==
    \/ \E g \in ConnectRegistrations :
          NumHandlers < MaxConnectHandlers /\ OnRequestHandleConnect(g[1], g[2])
    \/ \E g \in RequestRegistrations :
          NumHandlers < MaxConnectHandlers /\ OnRequestDo(g[1], g[2])
    \/ \E g \in ResponseRegistrations :
          NumHandlers < MaxConnectHandlers /\ OnResponseDo(g[1], g[2])
    \/ \E r \in ConnectRequests, env \in Envs : handleHttps(r, env)
    \/ \E dir \in CopyDirs : CopyReturns(dir)
    \/ \E dir \in CopyDirs : CopyAndCloseCloses(dir)
    \/ SpliceJoin
    \/ \E ok \in BOOLEAN : MitmHandshake(ok)
    \/ MitmEof
    \/ MitmReadError
    \/ \E q \in InnerRequests, rt \in RoundTripKinds, failAt \in 0..Len(ResponseWrites) :
          MitmServe(q, rt, failAt)
    \/ HTTPMitmReadError
    \/ \E q \in InnerRequests, up \in UpstreamKinds, ok \in BOOLEAN :
          HTTPMitmServe(q, up, ok)

SpecConnect == InitHttp /\ [][NextConnect]_vars

\* A task that can run is run: the close calls after a copy and after
\* wg.Wait() do not block.  io.Copy may never return, so CopyReturns is not fair.
SpecConnectFair ==
    /\ SpecConnect
    /\ WF_vars(SpliceJoin)
    /\ \A dir \in CopyDirs : WF_vars(CopyAndCloseCloses(dir))

\* ------------------------------------------- one proxy, several CONNECTs

\* CONNECT requests one proxy handles one after the other.
MaxConnects == 2

\* The server calls proxy.ServeHTTP(w, r) with a further CONNECT request, on a
\* new connection, after an earlier call of handleHttps has returned.  The
\* connection variables follow the newest connection.
handleHttpsNext(r, env) ==
    /\ served = Nil /\ conn # Nil
    /\ cpc \in {"returned", "panicked"}
    /\ Len(handled) < MaxConnects
    /\ handleHttpsStep(r, env)
    /\ UNCHANGED dialled

\* The CONNECT registrations explored with several CONNECTs.
SignRegistrations ==
    ({<<>>, <<CondDstHostIs(UrlHost("example.com", "443"))>>} \X {"AlwaysMitm"})
    \cup ({<<>>} \X {"ok", "httpmitm"})

NextSign ==
    \/ \E g \in SignRegistrations :
          NumHandlers < MaxConnectHandlers /\ OnRequestHandleConnect(g[1], g[2])
    \/ \E r \in ConnectRequests, env \in Envs : handleHttps(r, env)
    \/ \E r \in ConnectRequests, env \in Envs : handleHttpsNext(r, env)

SpecSign == InitHttp /\ [][NextSign]_vars

\* ------------------------------------------------------ request admission

\* Requests one proxy handles at the same time.
MaxInFlight == 3

\* ServeHTTP admits a non-CONNECT request: "r = proxy.requestWithContext(r)".
ServeHTTPEntry(r) ==
    /\ Len(inflight) < MaxInFlight
    /\ inflight' = Append(inflight, [path |-> "plain", req |-> requestWithContext(r)])
    /\ UNCHANGED <<readerVars, dialVars, xlog, handled, sess, registry, served, connVars>>

\* handleHttps admits a CONNECT request: "r = proxy.requestWithContext(r)".
handleHttpsEntry(r) ==
    /\ Len(inflight) < MaxInFlight
    /\ inflight' = Append(inflight, [path |-> "connect", req |-> requestWithContext(r)])
    /\ UNCHANGED <<readerVars, dialVars, xlog, handled, sess, registry, served, connVars>>

\* The TLS-MITM loop admits a request read from a tunnel:
\* "req = proxy.requestWithContext(req)".
MitmLoopEntry(q) ==
    /\ Len(inflight) < MaxInFlight
    /\ inflight' = Append(inflight, [path |-> "inner", req |-> requestWithContext(q)])
    /\ UNCHANGED <<readerVars, dialVars, xlog, handled, sess, registry, served, connVars>>

\* The i-th request in flight has been answered.
RequestDone(i) ==
    /\ i \in 1..Len(inflight)
    /\ inflight' = [k \in 1..(Len(inflight) - 1) |->
                        IF k < i THEN inflight[k] ELSE inflight[k + 1]]
    /\ UNCHANGED <<readerVars, dialVars, xlog, handled, sess, registry, served, connVars>>

NextSess ==
    \/ \E r \in PlainRequests : ServeHTTPEntry(r)
    \/ \E r \in ConnectRequests : handleHttpsEntry(r)
    \/ \E q \in InnerRequests : MitmLoopEntry(q)
    \/ \E i \in 1..MaxInFlight : RequestDone(i)

SpecSess == InitHttp /\ [][NextSess]_vars

\* ------------------------------------- plain HTTP path, context revision
\* The earlier revision of the engine (ctx.go, "func (proxy *ProxyHttpServer)
\* filterRequest(r *http.Request, ctx context.Context)"), which threads a
\* context.Context beside the request.

RECURSIVE filterRequestCtxLoop(_, _, _, _, _, _)
\* "req, resp, ctx = h.Handle(r, ctx)": every handler is given r, the request
\* filterRequest was called with; req and resp are the values returned so far.
filterRequestCtxLoop(hs, i, r, req, resp, log) ==
    IF i > Len(hs) THEN [req |-> req, resp |-> resp, log |-> log]
    ELSE LET out == ReqProxyCondsDo(hs[i], r)
             log2 == Append(log, HandlerCall("req", i, hs[i], r, Nil, out))
         IN  IF out.resp # Nil
             THEN [req |-> out.req, resp |-> out.resp, log |-> log2]
             ELSE filterRequestCtxLoop(hs, i + 1, r, out.req, out.resp, log2)

filterRequestCtx(hs, r) == filterRequestCtxLoop(hs, 1, r, r, Nil, <<>>)

RECURSIVE filterResponseCtxLoop(_, _, _, _, _)
\* "resp, ctx = h.Handle(resp, ctx)": the request is the context's, and stays.
filterResponseCtxLoop(hs, i, req, resp, log) ==
    IF i > Len(hs) THEN [req |-> req, resp |-> resp, log |-> log]
    ELSE LET got == ProxyCondsDo(hs[i], req, resp)
             out == [got EXCEPT !.req = req]
         IN  filterResponseCtxLoop(hs, i + 1, req, out.resp,
                 Append(log, HandlerCall("resp", i, hs[i], req, resp, out)))

filterResponseCtx(hs, req, resp) == filterResponseCtxLoop(hs, 1, req, resp, <<>>)

ServeHTTPCtxRespond(respHs, r, resp, events) ==
    LET origBody == resp.body
        fr == filterResponseCtx(respHs, r, resp)
        hdrs == IF origBody # fr.resp.body
                THEN HeaderDel(fr.resp.hdrs, "Content-Length")
                ELSE fr.resp.hdrs
    IN  [events |->
            events \o <<ChainStart("resp", r, resp)>> \o fr.log \o
            <<[ev |-> "WriteHeader", status |-> fr.resp.status, hdrs |-> hdrs,
               resp |-> fr.resp.ptr],
              [ev |-> "CopyBody", body |-> fr.resp.body],
              [ev |-> "BodyClose", body |-> fr.resp.body],
              [ev |-> "BodyClose", body |-> origBody]>>]

ServeHTTPCtxPlain(reqHs, respHs, r, rt) ==
    IF ~IsAbs(r) THEN [events |-> <<[ev |-> "NonproxyHandler", req |-> r]>>]
    ELSE
    LET fq == filterRequestCtx(reqHs, r)
        ev0 == <<ChainStart("req", r, Nil)>> \o fq.log
    IN  IF fq.resp # Nil THEN ServeHTTPCtxRespond(respHs, fq.req, fq.resp, ev0)
        ELSE
        LET out == removeProxyHeaders(fq.req)
            res == RoundTrip(rt, out)
            ev1 == Append(ev0, [ev |-> "RoundTrip", req |-> out])
        IN  IF res.err # ""
            THEN LET fe == filterResponseCtx(respHs, out, Nil)
                     ev2 == ev1 \o <<ChainStart("resp", out, Nil)>> \o fe.log
                 IN  IF fe.resp = Nil
                     THEN [events |->
                             Append(ev2, [ev |-> "Error", status |-> 500,
                                          msg |-> res.err])]
                     ELSE ServeHTTPCtxRespond(respHs, out, fe.resp, ev2)
            ELSE ServeHTTPCtxRespond(respHs, out, res.resp, ev1)

ServeHTTPCtx(r, rt) ==
    /\ served = Nil
    /\ served' = [in |-> r, rt |-> rt] @@
                 ServeHTTPCtxPlain(reqHandlers, respHandlers, r, rt)
    /\ UNCHANGED <<readerVars, dialVars, xlog, handled, sessVars, registry, connVars>>

NextHttpCtx ==
    \/ \E conds \in ReqGuards, beh \in ReqBehaviours : OnRequestDo(conds, beh)
    \/ \E conds \in RespGuards, beh \in RespBehaviours : OnResponseDo(conds, beh)
    \/ \E r \in PlainRequests, rt \in RoundTripKinds : ServeHTTPCtx(r, rt)

SpecHttpCtx == InitHttp /\ [][NextHttpCtx]_vars


\* ------------------------------------- registrations that name a host

\* OnRequest(DstHostIs(name)) with the host as a user writes it, without a
\* port, and with the port of the CONNECT.
HostGuards ==
    {<<CondDstHostIs(UrlHost(n, p))>> : n \in HostNames, p \in {"", "443"}}

HostConnectRegistrations ==
    (HostGuards \X {"AlwaysReject"}) \cup {<<<<>>, "AlwaysMitm">>}

HostRequestRegistrations == HostGuards \X {"canned"}

NextHosts ==
    \/ \E g \in HostConnectRegistrations :
          NumHandlers < MaxConnectHandlers /\ OnRequestHandleConnect(g[1], g[2])
    \/ \E g \in HostRequestRegistrations :
          NumHandlers < MaxConnectHandlers /\ OnRequestDo(g[1], g[2])
    \/ \E r \in ConnectRequests, env \in Envs : handleHttps(r, env)
    \/ \E dir \in CopyDirs : CopyReturns(dir)
    \/ \E dir \in CopyDirs : CopyAndCloseCloses(dir)
    \/ SpliceJoin
    \/ \E ok \in BOOLEAN : MitmHandshake(ok)
    \/ MitmEof
    \/ MitmReadError
    \/ \E q \in InnerRequests, rt \in RoundTripKinds, failAt \in 0..Len(ResponseWrites) :
          MitmServe(q, rt, failAt)

SpecHosts == InitHttp /\ [][NextHosts]_vars

\* ------------------------------------------ CONNECT through an upstream

\* The address handleHttps passes to proxy.connectDial for the events it logged.
DialAddr(events) ==
    LET IsDialEvent(e) == e.ev = "Dial"
    IN  SelectSeq(events, IsDialEvent)[1].addr

\* The server calls proxy.ServeHTTP(w, r) with a CONNECT request; the dial
\* handleHttps makes goes through proxy.connectDial, and w is what the peer of
\* that dial does.  A TLS connection to the upstream cannot be half-closed.
handleHttpsDial(r, w) ==
    /\ served = Nil /\ conn = Nil
    /\ cpc = "idle"
    /\ LET probe == handleHttpsResult(httpsHandlers, r,
                        [dialOk |-> TRUE, targetOK |-> TRUE, clientOK |-> TRUE,
                         signOk |-> TRUE])
           d == connectDial(ConnectDial, DialAddr(probe.cevents), w)
       IN  /\ dialled' = [peer |-> w] @@ d
           /\ handleHttpsStep(r, [dialOk |-> d.conn # Nil,
                                  targetOK |-> d.conn # Nil /\ ~d.conn.tls,
                                  clientOK |-> TRUE, signOk |-> TRUE])

\* The proxy is constructed in any environment.
InitDial == environ \in Environs /\ InitProxy /\ InitIdle

NextDial == \E r \in ConnectRequests, w \in Peers : handleHttpsDial(r, w)

SpecDial == InitDial /\ [][NextDial]_vars

\* ------------------------------------- handlers that use the context

MaxExchanges == 2

\* Request handlers that work with the context, and one that replaces the
\* request by a derived one.
CtxReqRegistrations ==
    {[reqConds |-> <<>>, beh |-> "stamp"],
     [reqConds |-> <<CondDstHostIs(UrlHost("example.com", ""))>>, beh |-> "stamp"],
     [reqConds |-> <<>>, beh |-> "setrt"],
     [reqConds |-> <<>>, beh |-> "fresh"],
     [reqConds |-> <<>>, beh |-> "replace"]}

CtxRespRegistrations ==
    {[reqConds |-> <<>>, respCond |-> <<>>, beh |-> "keep"],
     [reqConds |-> <<>>, respCond |-> <<>>, beh |-> "newreq"]}

\* The proxy requests of the clients: "GET http://name/...".
CtxRequests ==
    {NewRequest(1, "http", UrlHost(n, ""), UrlHost(n, ""), ra, {"User-Agent"}) :
        n \in HostNames, ra \in RemoteAddrs}

\* The server calls proxy.ServeHTTP(w, r) for one more non-CONNECT request.
ServeHTTPNext(r, rt) ==
    /\ conn = Nil
    /\ served # Nil => Len(xlog) + 1 < MaxExchanges
    /\ xlog' = IF served = Nil THEN xlog ELSE Append(xlog, served.in)
    /\ served' = [in |-> r, rt |-> rt] @@ ServeHTTPPlain(reqHandlers, respHandlers, r, rt)
    /\ UNCHANGED <<readerVars, dialVars, handled, sessVars, registry, connVars>>

NextCtx ==
    \/ \E h \in CtxReqRegistrations : OnRequestDo(h.reqConds, h.beh)
    \/ \E h \in CtxRespRegistrations : OnResponseDo(h.respCond, h.beh)
    \/ \E r \in CtxRequests, rt \in RoundTripKinds : ServeHTTPNext(r, rt)

SpecCtx == InitHttp /\ [][NextCtx]_vars

\* --------------------------------- handlers that name a content type

\* OnResponse(ContentTypeIs(typ, types...)) with one type, with two, and with
\* a type that carries a parameter.
TypeGuards ==
    {<<CondContentTypeIs("text/html")>>,
     <<CondContentTypeIs("application/json")>>,
     <<CondContentTypeIsAny("text/html", {"application/json"})>>,
     <<CondContentTypeIs("text/html; charset=utf-8")>>}

TypeRegistrations == (TypeGuards \X {"keep"}) \cup {<<<<>>, "rewrite">>}

\* The origin also answers with a type that only begins like a registered one.
TypeRoundTripKinds == RoundTripKinds \cup {"jsonseq"}

NextTypes ==
    \/ \E g \in TypeRegistrations : OnResponseDo(g[1], g[2])
    \/ \E r \in PlainRequests, rt \in TypeRoundTripKinds : ServeHTTP(r, rt)

SpecTypes == InitHttp /\ [][NextTypes]_vars

\* ------------------------------------------- a Reader and its caller

\* n, err := rb.Read(p) with a p of length len.
ReadCall(len) ==
    /\ ~rb.panics
    /\ Len(rcalls) < MaxCalls
    /\ \E n \in UnderlyingCounts(rb, len) :
         LET res == Read(rb, len, n)
         IN  /\ rb' = res.rb
             /\ rcalls' = Append(rcalls, [op |-> "Read", data |-> res.data,
                                        err |-> res.err])
    /\ UNCHANGED <<dialVars, xlog, handled, sessVars, registry, served, connVars>>

\* rb.Regret()
RegretCall ==
    /\ ~rb.panics
    /\ Len(rcalls) < MaxCalls
    /\ rb' = Regret(rb)
    /\ rcalls' = Append(rcalls, [op |-> "Regret", data |-> <<>>, err |-> ""])
    /\ UNCHANGED <<dialVars, xlog, handled, sessVars, registry, served, connVars>>

\* rb.Forget()
ForgetCall ==
    /\ ~rb.panics
    /\ Len(rcalls) < MaxCalls
    /\ rb' = Forget(rb)
    /\ rcalls' = Append(rcalls, [op |-> "Forget", data |-> <<>>, err |-> ""])
    /\ UNCHANGED <<dialVars, xlog, handled, sessVars, registry, served, connVars>>

\* rb := NewReaderSize(r, size) over a stream nobody has read from.
InitReader ==
    /\ environ = NoEnviron
    /\ InitProxy
    /\ InitNoRequest
    /\ rb \in {NewReaderSize(size) : size \in 1..MaxBuf}
    /\ rcalls = <<>>

NextReader ==
    \/ \E len \in 0..MaxRead : ReadCall(len)
    \/ RegretCall
    \/ ForgetCall

SpecReader == InitReader /\ [][NextReader]_vars


\* ------------------------------------------------ claims: handler chains

\* What the engine did for the plain-HTTP exchange, in order.
Events == IF served = Nil THEN <<>> ELSE served.events

IsHandlerCall(e, chain) == e.ev = "handler" /\ e.chain = chain

\* Some guard predicate of the handler returns false for the pair it is given.
SomeGuardFails(e) ==
    \/ \E i \in 1..Len(e.h.reqConds) : ~HandleReq(e.h.reqConds[i], e.inReq)
    \/ /\ e.chain = "resp"
       /\ \E i \in 1..Len(e.h.respCond) :
              ~HandleResp(e.h.respCond[i], e.inReq, e.inResp)

\* C2: in each chain the handlers run in registration order, the first is
\* given the engine's input, and each next one is given exactly what the one
\* before it returned.
C2_HandlersChained ==
    \A j \in 1..Len(Events) :
        Events[j].ev = "handler" =>
            /\ j > 1
            /\ \/ /\ Events[j - 1].ev = "chain"
                  /\ Events[j - 1].chain = Events[j].chain
                  /\ Events[j].idx = 1
                  /\ Events[j].inReq = Events[j - 1].req
                  /\ Events[j].inResp = Events[j - 1].resp
               \/ /\ Events[j - 1].ev = "handler"
                  /\ Events[j - 1].chain = Events[j].chain
                  /\ Events[j].idx = Events[j - 1].idx + 1
                  /\ Events[j].inReq = Events[j - 1].outReq
                  /\ Events[j].inResp = Events[j - 1].outResp

\* C3: once a request handler returns a canned response, no later request
\* handler is called, the round-tripper is not called for the request, and the
\* whole response chain runs on the canned response before the response is
\* written to the client.
C3_CannedShortCircuits ==
    \A j \in 1..Len(Events) :
        (IsHandlerCall(Events[j], "req") /\ Events[j].outResp # Nil) =>
            /\ \A k \in 1..Len(Events) : Events[k].ev # "RoundTrip"
            /\ \A k \in (j + 1)..Len(Events) : ~IsHandlerCall(Events[k], "req")
            /\ Len(Events) >= j + 2 + Len(respHandlers)
            /\ Events[j + 1] = ChainStart("resp", Events[j].outReq, Events[j].outResp)
            /\ \A i \in 1..Len(respHandlers) :
                   /\ IsHandlerCall(Events[j + 1 + i], "resp")
                   /\ Events[j + 1 + i].idx = i
            /\ Events[j + 2 + Len(respHandlers)].ev = "WriteHeader"
            /\ \A k \in 1..(j + 1 + Len(respHandlers)) :
                   Events[k].ev \notin {"WriteHeader", "CopyBody", "Error"}

\* A canned response came from the first of two request handlers, and a
\* response handler ran on it before it was written.
C3_Witness ==
    /\ Len(reqHandlers) = 2
    /\ Len(respHandlers) = 1
    /\ \E j \in 1..Len(Events) :
           /\ IsHandlerCall(Events[j], "req")
           /\ Events[j].idx = 1
           /\ Events[j].outResp = CannedResponse
    /\ \E j \in 1..Len(Events) :
           /\ IsHandlerCall(Events[j], "resp")
           /\ Events[j].invoked
           /\ Events[j].inResp = CannedResponse
    /\ \E j \in 1..Len(Events) : Events[j].ev = "WriteHeader"

\* C4: a handler one of whose guard predicates returns false is not invoked,
\* and the engine carries the same request and the same response after it as
\* before it.
C4_SkippedHandlerPassesThrough ==
    \A j \in 1..Len(Events) :
        (Events[j].ev = "handler" /\ SomeGuardFails(Events[j])) =>
            /\ ~Events[j].invoked
            /\ Events[j].outReq = Events[j].inReq
            /\ Events[j].outResp = Events[j].inResp

\* A request handler and a response handler were both skipped, the response
\* handler while the engine carried a response.
C4_Witness ==
    /\ \E j \in 1..Len(Events) :
           IsHandlerCall(Events[j], "req") /\ SomeGuardFails(Events[j])
    /\ \E j \in 1..Len(Events) :
           /\ IsHandlerCall(Events[j], "resp")
           /\ SomeGuardFails(Events[j])
           /\ Events[j].inResp # Nil

\* ----------------------------------------------- claims: CONNECT dispatch

IsConnectCall(e) == e.ev = "connect"

\* The calls of CONNECT handlers handleHttps made, in order.
ConnectCalls == SelectSeq(cevents, IsConnectCall)

\* Every guard predicate of the CONNECT handler holds for the request given.
ConnectGuardsHold(c) ==
    \A i \in 1..Len(c.h.reqConds) : HandleReq(c.h.reqConds[i], c.inReq)

\* C1: CONNECT handlers are consulted in registration order; the action and
\* host of the first handler that returns an action are the ones dispatched and
\* no later handler is called; when every handler declines, or none is
\* registered, the action is Accept with the request's own URL host.  With an
\* unguarded AlwaysMitm before a guarded AlwaysReject the action is Mitm and
\* the second handler is not called.
C1_FirstActionWins ==
    conn # Nil =>
        LET calls == ConnectCalls
            n == Len(calls)
        IN  /\ n <= Len(httpsHandlers)
            /\ \A j \in 1..n : calls[j].idx = j /\ calls[j].h = httpsHandlers[j]
            /\ \A j \in 1..n : calls[j].inHost = conn.in.host
            /\ \A j \in 1..(n - 1) : calls[j].action = Nil
            /\ IF n > 0 /\ calls[n].action # Nil
               THEN conn.todo = calls[n].action /\ conn.host = calls[n].outHost
               ELSE /\ n = Len(httpsHandlers)
                    /\ conn.todo = OkConnect
                    /\ conn.host = conn.in.host
            /\ (/\ Len(httpsHandlers) = 2
                /\ httpsHandlers[1] = [reqConds |-> <<>>, beh |-> "AlwaysMitm"]
                /\ httpsHandlers[2].beh = "AlwaysReject")
               => (conn.todo = MitmConnect /\ n = 1)

\* AlwaysMitm was registered before a guarded AlwaysReject whose guard holds
\* for the CONNECT request, and the request was dispatched as Mitm.
C1_Witness ==
    /\ conn # Nil
    /\ Len(httpsHandlers) = 2
    /\ httpsHandlers[1] = [reqConds |-> <<>>, beh |-> "AlwaysMitm"]
    /\ httpsHandlers[2].beh = "AlwaysReject"
    /\ Len(httpsHandlers[2].reqConds) > 0
    /\ ReqCondsMatch(httpsHandlers[2].reqConds, conn.in)
    /\ conn.todo = MitmConnect

\* The handler calls of the current tunnel iteration.
IsHandlerEvent(e) == e.ev = "handler"

\* C5: a registered request, response or CONNECT handler is invoked on a
\* dispatch exactly when every one of its predicates holds for that dispatch
\* (always, when it has none); a CONNECT handler whose guard fails returns no
\* action and the CONNECT chain goes on to the next handler.
C5_InvokedIffAllGuardsHold ==
    /\ \A j \in 1..Len(ievents) :
           IsHandlerEvent(ievents[j]) =>
               (ievents[j].invoked <=> ~SomeGuardFails(ievents[j]))
    /\ \A j \in 1..Len(ConnectCalls) :
           LET c == ConnectCalls[j]
           IN  /\ c.invoked <=> ConnectGuardsHold(c)
               /\ ~c.invoked =>
                      /\ c.action = Nil
                      /\ j < Len(httpsHandlers) => Len(ConnectCalls) > j

\* A CONNECT handler with two predicates, the first true and the second
\* false, declined, and the next handler was consulted and invoked.
C5_Witness ==
    /\ Len(ConnectCalls) = 2
    /\ Len(ConnectCalls[1].h.reqConds) = 2
    /\ ~ConnectCalls[1].invoked
    /\ HandleReq(ConnectCalls[1].h.reqConds[1], ConnectCalls[1].inReq)
    /\ ConnectCalls[1].action = Nil
    /\ ConnectCalls[2].invoked

\* ------------------------------------------------ claims: forwarded requests

\* The requests the proxy sent upstream: through the round-tripper, or written
\* to the target connection of an HTTPMitm tunnel.
IsForward(e) == e.ev \in {"RoundTrip", "ReqWrite"}

\* C6: every request forwarded upstream, on the plain path, in the TLS-MITM
\* loop and in the HTTPMitm loop, carries none of the hop-by-hop headers.
C6_NoHopHeadersForwarded ==
    /\ \A j \in 1..Len(Events) :
           IsForward(Events[j]) => Events[j].req.hdrs \cap HopHeaders = {}
    /\ \A j \in 1..Len(ievents) :
           IsForward(ievents[j]) => ievents[j].req.hdrs \cap HopHeaders = {}

IsTlsWrite(e) == e.ev = "TlsWrite"

\* The writes of the current TLS-MITM iteration that reached the client.
TlsWrites == SelectSeq(ievents, IsTlsWrite)

\* C7: a response the TLS-MITM loop writes starts with an HTTP/1.1 status
\* line; its header block has Transfer-Encoding: chunked and Connection: close
\* and no Content-Length; the header block is written before the body and the
\* chunked terminator after it.
C7_MitmResponseFraming ==
    /\ Len(TlsWrites) <= Len(ResponseWrites)
    /\ \A k \in 1..Len(TlsWrites) :
           /\ TlsWrites[k].w = ResponseWrites[k]
           /\ TlsWrites[k].w = "StatusLine" => TlsWrites[k].proto = "HTTP/1.1"
           /\ TlsWrites[k].w = "Header" =>
                  /\ HeaderHas(TlsWrites[k].hdrs, "Transfer-Encoding")
                  /\ HeaderGet(TlsWrites[k].hdrs, "Transfer-Encoding") = "chunked"
                  /\ HeaderHas(TlsWrites[k].hdrs, "Connection")
                  /\ HeaderGet(TlsWrites[k].hdrs, "Connection") = "close"
                  /\ ~HeaderHas(TlsWrites[k].hdrs, "Content-Length")

\* A response of the round-tripper, rewritten by a response handler, was
\* written to the TLS client in full.
C7_Witness ==
    /\ Len(TlsWrites) = Len(ResponseWrites)
    /\ \E j \in 1..Len(ievents) : ievents[j].ev = "RoundTrip"
    /\ \E j \in 1..Len(ievents) :
           /\ IsHandlerCall(ievents[j], "resp")
           /\ ievents[j].invoked
           /\ HeaderHas(ievents[j].outResp.hdrs, "Content-Length")

\* --------------------------------------------------- claims: session ids

\* C8: the requests one proxy handles at the same time have pairwise
\* distinct session ids.
C8_SessionsDistinct ==
    \A i, j \in 1..Len(inflight) :
        i # j => CtxSession(inflight[i].req) # CtxSession(inflight[j].req)

\* ------------------------------------------------------- claims: splice

\* The CONNECT was resolved to Accept and the dial succeeded.
AcceptedAndDialled == conn # Nil /\ conn.todo.Action = "ConnectAccept" /\ target # Nil

BothCopiesFinished == copies["c2t"] = "done" /\ copies["t2c"] = "done"

\* The endpoint has been closed once: both of its halves once each in the
\* half-close policy, the whole connection once in the fallback.
ClosedOnce(c) ==
    IF conn.splice = "halfclose"
    THEN c.CloseRead = 1 /\ c.CloseWrite = 1 /\ c.Close = 0
    ELSE c.Close = 1 /\ c.CloseRead = 0 /\ c.CloseWrite = 0

BothClosedOnce == AcceptedAndDialled /\ ClosedOnce(client) /\ ClosedOnce(target)

NeverClosedTwice(c) == c.Close <= 1 /\ c.CloseRead <= 1 /\ c.CloseWrite <= 1

InFallback == conn # Nil /\ conn.splice = "fallback"

\* C10 as stated: in the fallback policy, as soon as either copy has finished
\* both endpoints are closed (the closing task has run or can run), without
\* waiting for the other copy.
C10_ClosedWhenEitherFinishes ==
    (InFallback /\ \E dir \in CopyDirs : copies[dir] = "done") =>
        (joiner = "done" \/ ENABLED SpliceJoin)

\* C10 amended: in the fallback policy the endpoints are closed only after
\* both copies have finished, and once both have finished the closing task has
\* run or can run.
C10_ClosedAfterBothFinish ==
    InFallback =>
        /\ (joiner = "done" \/ ENABLED SpliceJoin \/ client.Close > 0 \/ target.Close > 0)
               => BothCopiesFinished
        /\ BothCopiesFinished => (joiner = "done" \/ ENABLED SpliceJoin)
        /\ joiner = "done" => (client.Close = 1 /\ target.Close = 1)

\* The fallback's closing task has closed both endpoints.
C10_Witness ==
    /\ InFallback
    /\ BothCopiesFinished
    /\ joiner = "done"
    /\ client.Close = 1 /\ target.Close = 1

\* ------------------------------------------- claims: CONNECT actions

\* The CONNECT was dispatched with this action.
ResolvedTo(action) == conn # Nil /\ conn.todo.Action = action

IsDial(e) == e.ev = "Dial"

\* The dials handleHttps attempted, in order.
Dials == SelectSeq(cevents, IsDial)

\* C11: for a CONNECT resolved to Reject the client connection is closed and
\* nothing is dialled; a response prepared in the context is written before the
\* close, and without one nothing is written and the connection is closed all
\* the same.
C11_RejectClosesClient ==
    ResolvedTo("ConnectReject") =>
        /\ client.Close = 1
        /\ Dials = <<>> /\ target = Nil
        /\ client.written = IF conn.r.ctx.Resp # Nil
                            THEN <<[resp |-> conn.r.ctx.Resp]>>
                            ELSE <<>>

\* C12 as stated: for every CONNECT resolved to Mitm the TLS-MITM task is
\* started and begins a handshake on the client connection.
C12_MitmStartsHandshake == ResolvedTo("ConnectMitm") => mpc # "none"

IsSignHost(e) == e.ev = "signHost"

\* The calls of the action's TLS-config factory, which signs a leaf.
SignCalls == SelectSeq(cevents, IsSignHost)

\* The action has no TLS-config factory, or the factory returned a
\* configuration.
TLSConfigResolved == \A j \in 1..Len(SignCalls) : SignCalls[j].ok

\* C12 amended: for a CONNECT resolved to Mitm the handshake is begun exactly
\* when the TLS configuration was resolved without error; when resolving it
\* fails the client gets the 502 of httpError, is closed, and no handshake is
\* begun.
C12_HandshakeIffConfigResolved ==
    ResolvedTo("ConnectMitm") =>
        /\ client.written[1] = Line200
        /\ TLSConfigResolved <=> mpc # "none"
        /\ ~TLSConfigResolved =>
               (client.written = <<Line200, Line502>> /\ client.Close = 1)

\* The TLS-MITM task of a CONNECT resolved to Mitm is in its handshake.
C12_Witness ==
    /\ ResolvedTo("ConnectMitm")
    /\ Len(SignCalls) = 1 /\ SignCalls[1].ok
    /\ mpc = "handshake"

\* C13: for a CONNECT resolved to Accept, a failed dial gives the client the
\* 502 response and a close, with no 200 line and no copy task; after a
\* successful dial the 200 line is on the client connection by the time a copy
\* task exists.
C13_AcceptDialOutcome ==
    ResolvedTo("ConnectAccept") =>
        /\ Len(Dials) = 1
        /\ ~Dials[1].ok =>
               /\ client.written = <<Line502>>
               /\ client.Close = 1
               /\ \A dir \in CopyDirs : copies[dir] = "none"
               /\ target = Nil /\ joiner = "none"
        /\ Dials[1].ok =>
               /\ client.written = <<Line200>>
               /\ \A dir \in CopyDirs : copies[dir] # "none"

\* The dial of an accepted CONNECT failed.
C13_Witness ==
    /\ ResolvedTo("ConnectAccept")
    /\ Len(Dials) = 1 /\ ~Dials[1].ok
    /\ client.written = <<Line502>>

IsHijack(e) == e.ev = "Hijack"

\* The calls of the action's hijack callback.
HijackCalls == SelectSeq(cevents, IsHijack)

\* C14: for a CONNECT resolved to Hijack or ProxyAuthHijack the engine writes
\* one status line (200 OK and a blank line for Hijack, the 407 line with no
\* blank line for ProxyAuthHijack), then calls the hijack callback once with
\* the request and the client connection, and never writes to the client or
\* closes it afterwards.
C14_HijackHandsOver ==
    (ResolvedTo("ConnectHijack") \/ ResolvedTo("ConnectProxyAuthHijack")) =>
        /\ client.written =
               IF conn.todo.Action = "ConnectHijack"
               THEN <<"HTTP/1.0 200 OK\r\n\r\n">>
               ELSE <<"HTTP/1.1 407 Proxy Authentication Required\r\n">>
        /\ Len(HijackCalls) = 1
        /\ HijackCalls[1].req = conn.r
        /\ HijackCalls[1].client = "proxyClient"
        /\ cevents[Len(cevents)] = HijackCalls[1]
        /\ client.Close = 0 /\ client.CloseRead = 0 /\ client.CloseWrite = 0
        /\ cpc = "returned" /\ mpc = "none" /\ joiner = "none"

\* A CONNECT resolved to ProxyAuthHijack was handed to its callback.
C14_Witness ==
    /\ ResolvedTo("ConnectProxyAuthHijack")
    /\ Len(HijackCalls) = 1
    /\ client.written = <<Line407>>

\* The round trip of the current TLS-MITM iteration failed: the task returned
\* right after it.
MitmRoundTripFailed ==
    /\ ResolvedTo("ConnectMitm")
    /\ mpc = "done"
    /\ Len(ievents) > 0
    /\ ievents[Len(ievents)].ev = "RoundTrip"

\* Line502 is among what was written to the client, and the client is closed.
Got502AndClose ==
    /\ \E k \in 1..Len(client.written) : client.written[k] = Line502
    /\ client.Close >= 1

\* C15: on the Accept, HTTPMitm and TLS-MITM paths a failed dial or a failed
\* round trip ends with the 502 of httpError written to the client and the
\* client connection closed.
C15_UpstreamErrorGives502 ==
    /\ (\E j \in 1..Len(Dials) : ~Dials[j].ok) => Got502AndClose
    /\ MitmRoundTripFailed => Got502AndClose

\* ------------------------------------------ claims: round-trip errors

\* The index of the first event of this kind in the exchange, 0 when none.
FirstEvent(kind) ==
    IF \E j \in 1..Len(Events) : Events[j].ev = kind
    THEN CHOOSE j \in 1..Len(Events) :
             Events[j].ev = kind /\ \A k \in 1..(j - 1) : Events[k].ev # kind
    ELSE 0

\* The round-tripper was called for the plain-HTTP exchange and failed.
PlainRoundTripFailed ==
    served # Nil /\ served.rt = "error" /\ FirstEvent("RoundTrip") > 0

\* The response the response chain that starts after event j ends with.
ChainResult(j) ==
    IF Len(respHandlers) = 0 THEN Events[j].resp
    ELSE Events[j + Len(respHandlers)].outResp

\* C16: on the plain path a failed round trip is followed by the whole
\* response chain, started on a nil response; the 500 with the error string is
\* written exactly when that chain ends with no response, and then nothing
\* else is written for the request.
C16_ErrorRunsChainThen500 ==
    /\ (\E j \in 1..Len(Events) : Events[j].ev = "Error") => PlainRoundTripFailed
    /\ PlainRoundTripFailed =>
           LET j == FirstEvent("RoundTrip") + 1
           IN  /\ Len(Events) >= j + Len(respHandlers)
               /\ Events[j].ev = "chain"
               /\ Events[j].chain = "resp"
               /\ Events[j].resp = Nil
               /\ \A i \in 1..Len(respHandlers) :
                      IsHandlerCall(Events[j + i], "resp") /\ Events[j + i].idx = i
               /\ (FirstEvent("Error") > 0) <=> (ChainResult(j) = Nil)
               /\ ChainResult(j) = Nil =>
                      /\ Len(Events) = j + Len(respHandlers) + 1
                      /\ Events[Len(Events)] =
                             [ev |-> "Error", status |-> 500,
                              msg |-> RoundTrip("error", served.in).err]
                      /\ \A k \in 1..Len(Events) :
                             Events[k].ev \notin {"WriteHeader", "CopyBody"}
               /\ ChainResult(j) # Nil => FirstEvent("WriteHeader") > 0

\* The round trip failed, a response handler synthesized a response from the
\* nil response, and that response was written, not the 500.
C16_Witness ==
    /\ PlainRoundTripFailed
    /\ Len(respHandlers) > 0
    /\ ChainResult(FirstEvent("RoundTrip") + 1) = SynthResponse
    /\ FirstEvent("WriteHeader") > 0
    /\ FirstEvent("Error") = 0

\* A response chain was started on a nil response with the error stored in
\* the request's context.
ChainRunOnError(events) ==
    \E j \in 1..Len(events) :
        /\ events[j].ev = "chain"
        /\ events[j].chain = "resp"
        /\ events[j].resp = Nil
        /\ events[j].req.ctx # Nil
        /\ events[j].req.ctx.Error # ""

\* C17: after a failed round trip, on the plain path and in the TLS-MITM loop,
\* the error is in the request context and the response chain is run on a nil
\* response before the request is given up.
C17_ErrorStoredAndChainRun ==
    /\ PlainRoundTripFailed => ChainRunOnError(Events)
    /\ MitmRoundTripFailed => ChainRunOnError(ievents)

\* The handshake of the TLS-MITM task failed and the task returned.
MitmHandshakeFailed ==
    mpc = "done" /\ ievents = <<[ev |-> "HandshakeError"]>>

\* C18: when the TLS handshake with the client fails, the TLS-MITM task closes
\* the client connection before it returns, and reads no request and calls no
\* handler.
C18_HandshakeFailureCloses ==
    MitmHandshakeFailed => client.Close >= 1

\* ------------------------------------------------ claims: leaf issuer

\* How many of the CONNECTs handled so far had a leaf signed for this host.
TimesSigned(host) ==
    Cardinality({i \in 1..Len(handled) :
                    \E k \in 1..Len(handled[i].signed) : handled[i].signed[k] = host})

\* C19: over the CONNECTs one proxy handles, the leaf issuer is called at most
\* once for a host, and only for CONNECTs resolved to Mitm.
C19_SignedOncePerHost ==
    /\ \A host \in HostNames : TimesSigned(host) <= 1
    /\ \A i \in 1..Len(handled) :
           /\ Len(handled[i].signed) <= 1
           /\ handled[i].signed # <<>> => handled[i].action = "ConnectMitm"

\* -------------------------------------------- claims: inner requests

\* C20: every request the TLS-MITM loop hands to the request chain has an
\* absolute https URL: the URL as read when that starts with https://, and
\* otherwise https://, the outer CONNECT host and the URL as read; its
\* RemoteAddr is that of the outer CONNECT request.
C20_InnerRequestRewritten ==
    ResolvedTo("ConnectMitm") =>
        \A j \in 2..Len(ievents) :
            (ievents[j].ev = "chain" /\ ievents[j].chain = "req") =>
                LET read == ievents[1].req
                    given == ievents[j].req
                IN  /\ given.URL
                    /\ given.scheme = "https"
                    /\ given.host = IF httpsRegexp(read) THEN read.host ELSE conn.in.Host
                    /\ given.path = read.path
                    /\ given.remote = conn.in.remote

\* ------------------------------------------- claims: non-proxy requests

\* A request handler that every request passes to is registered.
SomeUnguardedReqHandler ==
    \E i \in 1..Len(reqHandlers) : reqHandlers[i].reqConds = <<>>

\* C21: for a non-CONNECT request whose URL is not absolute, the non-proxy
\* fallback handler is invoked and nothing else: no request handler, no
\* response handler and no round trip.
C21_NonAbsoluteOnlyFallback ==
    (served # Nil /\ served.in.scheme = "") =>
        /\ Len(served.events) = 1
        /\ served.events[1].ev = "NonproxyHandler"
        /\ served.events[1].req.Host = served.in.Host

\* The non-absolute request arrives at a proxy with an unguarded request
\* handler and a response handler registered.
C21_Witness ==
    /\ served # Nil /\ served.in.scheme = ""
    /\ SomeUnguardedReqHandler
    /\ Len(respHandlers) > 0
    /\ served.events[1].ev = "NonproxyHandler"

\* -------------------------------------- claims: writing the response

\* The engine wrote the response of the plain-HTTP exchange to the client.
ResponseWritten == FirstEvent("WriteHeader") > 0

\* The start of the response chain whose result was written at event j.
WrittenChainStart(j) == j - Len(respHandlers) - 1

\* C22: on the plain path, with "before" the response the last response chain
\* was started on and "after" the response it ended with: Content-Length is
\* taken out of the headers written exactly when the body of "after" is
\* another object than the body of "before", every other header is written
\* as it is; the status and headers are written, then the body of "after" is
\* streamed, and the body of "before" is closed at the end of the request.
C22_ContentLengthDroppedIffBodyReplaced ==
    ResponseWritten =>
        LET j == FirstEvent("WriteHeader")
            k == WrittenChainStart(j)
            before == Events[k].resp
            after == ChainResult(k)
        IN  /\ Events[k].ev = "chain" /\ Events[k].chain = "resp"
            /\ Events[j].status = after.status
            /\ Events[j].hdrs =
                   IF before.body # after.body
                   THEN HeaderDel(after.hdrs, "Content-Length")
                   ELSE after.hdrs
            /\ HeaderHas(Events[j].hdrs, "Content-Length") <=> before.body = after.body
            /\ Events[j + 1] = [ev |-> "CopyBody", body |-> after.body]
            /\ Events[Len(Events)] = [ev |-> "BodyClose", body |-> before.body]
            /\ \A i \in 1..(j - 1) : Events[i].ev \notin {"CopyBody", "WriteHeader"}

\* A response handler gave the response a new body and the engine wrote the
\* response without Content-Length.
C22_Witness ==
    /\ ResponseWritten
    /\ ~HeaderHas(Events[FirstEvent("WriteHeader")].hdrs, "Content-Length")
    /\ \E i \in 1..Len(Events) :
           /\ IsHandlerCall(Events[i], "resp") /\ Events[i].invoked
           /\ Events[i].inResp # Nil
           /\ Events[i].outResp.body # Events[i].inResp.body

\* ------------------------------------- claims: the request context

\* The engine asked for the round-tripper of the request and the getter
\* panicked.
IsGetterPanic(e) == e.ev = "Panic" /\ e.in = "CtxRoundTripper"

\* C23: the round-tripper getter never fails: every time the engine asks for
\* the round-tripper of a request it gets the one set on the request's
\* context, and the proxy's shared transport when none was set, also for a
\* request to which no context was ever attached.
C23_RoundTripperGetterNeverFails ==
    \A j \in 1..Len(Events) :
        /\ ~IsGetterPanic(Events[j])
        /\ Events[j].ev = "RoundTrip" =>
               Events[j].via = IF GetAnyProxyCtx(Events[j].req).RoundTripper # ""
                               THEN GetAnyProxyCtx(Events[j].req).RoundTripper
                               ELSE "Tr"

\* C24: whenever the engine invokes a request or response handler with
\* request R, the request field of the context attached to R is R.
C24_ContextRequestIsHandlersRequest ==
    \A j \in 1..Len(Events) :
        (Events[j].ev = "handler" /\ Events[j].invoked) =>
            CtxRequest(Events[j].inReq) = Events[j].inReq.ptr

\* The request handler called at event k stored user data.
IsStore(k) ==
    IsHandlerCall(Events[k], "req") /\ Events[k].invoked /\ Events[k].h.beh = "stamp"

\* The request handler called at event k returned a request that has none of
\* the context of the request it was given.
IsContextDrop(k) ==
    IsHandlerCall(Events[k], "req") /\ Events[k].invoked /\ Events[k].h.beh = "fresh"

InHalfClose == conn # Nil /\ cpc # "idle" /\ conn.splice = "halfclose"

\* The positions in cevents of the events of kind ev the copy task dir logged.
CopyEvents(dir, ev) ==
    {j \in 1..Len(cevents) : cevents[j].ev = ev /\ cevents[j].by = dir}

\* How often op was called on the connection c.
Shutdowns(c, op) ==
    IF c = "client" THEN (IF op = "CloseWrite" THEN client.CloseWrite ELSE client.CloseRead)
    ELSE (IF op = "CloseWrite" THEN target.CloseWrite ELSE target.CloseRead)

\* C26: in the half-close splice, once the copy from S to T has returned,
\* with an error or without, its task calls CloseWrite on T and then CloseRead
\* on S, each once; before that neither is called, so the copy of the other
\* direction is not touched by an error of this one, and neither connection
\* is closed as a whole.
C26_HalfCloseShutsBothSides ==
    InHalfClose =>
        /\ client.Close = 0 /\ target.Close = 0
        /\ \A dir \in CopyDirs :
               LET n == IF copies[dir] = "done" THEN 1 ELSE 0
               IN  /\ Shutdowns(CopyDst(dir), "CloseWrite") = n
                   /\ Shutdowns(CopySrc(dir), "CloseRead") = n
                   /\ Cardinality(CopyEvents(dir, "CloseWrite")) = n
                   /\ Cardinality(CopyEvents(dir, "CloseRead")) = n
                   /\ Cardinality(CopyEvents(dir, "io.Copy")) =
                          (IF copies[dir] = "running" THEN 0 ELSE 1)
                   /\ \A w \in CopyEvents(dir, "CloseWrite") :
                          /\ cevents[w] = CloseCalls(dir)[1]
                          /\ w < Len(cevents) /\ cevents[w + 1] = CloseCalls(dir)[2]
                          /\ \E c \in CopyEvents(dir, "io.Copy") : c < w

\* The copy from the client failed and its task has shut down both sides
\* while the copy from the target is still running.
C26_Witness ==
    /\ InHalfClose
    /\ copies = [c2t |-> "done", t2c |-> "running"]
    /\ \E c \in CopyEvents("c2t", "io.Copy") : cevents[c].err
    /\ target.CloseWrite = 1 /\ client.CloseRead = 1
    /\ client.CloseWrite = 0 /\ target.CloseRead = 0

\* ---------------------------------------- claims: the upstream proxy

\* proxy.connectDial was called and went to the function made by
\* NewConnectDialToProxy, whose dial of the upstream succeeded.
DialledUpstream ==
    dialled # Nil /\ ConnectDial # Nil /\ dialled.peer.dialOk

\* C27: the upstream dial function sends a CONNECT for the target address;
\* it returns the upstream connection exactly when the upstream answers 200;
\* on any other status it returns no connection and the error "proxy refused
\* connection" followed by the body, cut to 500 bytes in the https variant.
C27_UpstreamDialOutcome ==
    DialledUpstream =>
        LET a == dialled.peer.answer
        IN  /\ dialled.events[2] = [ev |-> "ConnectWrite", addr |-> DialAddr(cevents)]
            /\ dialled.conn # Nil <=> (a.read /\ a.status = 200)
            /\ (a.read /\ a.status # 200) =>
                   dialled.err =
                       [text |-> "proxy refused connection",
                        body |-> IF ConnectDial.tls /\ a.body > BodyLimit
                                 THEN BodyLimit ELSE a.body]

\* The proxy URL New() finds in the environment (NoURL: none).
EnvProxyURL ==
    IF environ.HTTPS_PROXY # NoURL THEN environ.HTTPS_PROXY ELSE environ.https_proxy

\* The address of the upstream proxy the URL v names.
UpstreamAddr(v) ==
    [name |-> v.name,
     port |-> IF v.port # "" THEN v.port
              ELSE IF v.scheme = "https" THEN "443" ELSE "80"]

\* C28: with a proxy URL in HTTPS_PROXY (or, if that is empty, https_proxy)
\* and no handler registered, the dial of every CONNECT goes to that upstream
\* proxy, which is sent a CONNECT for the target address, and never to the
\* target; with neither variable set the target is dialled.
C28_ConnectGoesThroughEnvProxy ==
    (dialled # Nil /\ NumHandlers = 0) =>
        IF EnvProxyURL # NoURL
        THEN /\ dialled.events[1] = [ev |-> "dial", addr |-> UpstreamAddr(EnvProxyURL)]
             /\ dialled.peer.dialOk =>
                    dialled.events[2] = [ev |-> "ConnectWrite", addr |-> DialAddr(cevents)]
        ELSE dialled.events = <<[ev |-> "dial", addr |-> DialAddr(cevents)]>>

\* ------------------------------- claims: registrations that name a host

\* The only registration is OnRequest(DstHostIs("www.reddit.com")) with a
\* handler that returns a canned 403.
OnlyRedditCanned ==
    /\ reqHandlers = <<[reqConds |-> <<CondDstHostIs(UrlHost("www.reddit.com", ""))>>,
                        beh |-> "canned"]>>
    /\ respHandlers = <<>> /\ httpsHandlers = <<>>

\* handleHttps handled a CONNECT to name:443, and the dial, if any, succeeded.
Connected(name) ==
    /\ conn # Nil /\ conn.in.host = UrlHost(name, "443")
    /\ \A k \in 1..Len(Dials) : Dials[k].ok

\* C29: with that registration alone, a client that sends CONNECT
\* www.reddit.com:443 gets the 200 line, does its TLS handshake with the
\* proxy, and a request it sends inside the tunnel is answered with the 403,
\* chunked and with Connection: close.
C29_RedditTunnelGets403 ==
    (OnlyRedditCanned /\ Connected("www.reddit.com")) =>
        /\ \E k \in 1..Len(client.written) : client.written[k] = Line200
        /\ mpc # "none"
        /\ \A j \in 1..Len(ievents) :
               ievents[j].ev = "ReadRequest" =>
                   /\ Len(TlsWrites) = Len(ResponseWrites)
                   /\ TlsWrites[1].status = CannedResponse.status
                   /\ HeaderGet(TlsWrites[2].hdrs, "Transfer-Encoding") = "chunked"
                   /\ HeaderGet(TlsWrites[2].hdrs, "Connection") = "close"

\* C30: with OnRequest(DstHostIs("example.com")).HandleConnect(AlwaysReject)
\* registered before OnRequest().HandleConnect(AlwaysMitm), a CONNECT to
\* example.com:443 is rejected: the client connection is closed and no TLS
\* handshake is started.
C30_RejectBeforeMitmRejects ==
    (/\ httpsHandlers =
            <<[reqConds |-> <<CondDstHostIs(UrlHost("example.com", ""))>>,
               beh |-> "AlwaysReject"],
              [reqConds |-> <<>>, beh |-> "AlwaysMitm"]>>
     /\ conn # Nil /\ conn.in.host = UrlHost("example.com", "443"))
    => /\ conn.todo = RejectConnect
       /\ mpc = "none"
       /\ client.Close = 1

\* -------------------------------------------- claims: the TLS-MITM task

\* C31: for a CONNECT resolved to Mitm, handleHttps has returned in every
\* state in which the handshake is still outstanding or the tunnel's loop is
\* still running: the accepting task waits for neither.
C31_MitmDetached ==
    ResolvedTo("ConnectMitm") =>
        /\ cpc = "returned"
        /\ mpc \in {"none", "handshake", "loop", "done", "panicked"}

\* handleHttps has returned while the client has not finished the handshake.
C31_Witness ==
    ResolvedTo("ConnectMitm") /\ cpc = "returned" /\ mpc = "handshake"


\* A tunnel's loop whose read of the next request has just failed.
ReadRequestFailed ==
    Len(ievents) = 1 /\ ievents[1].ev = "ReadRequestError"

\* C32: when reading the next request of an HTTPMitm or TLS-MITM tunnel
\* fails, the loop ends normally: its task returns and does not crash.
C32_ReadFailureEndsLoop ==
    ReadRequestFailed => mpc # "panicked" /\ cpc # "panicked"


\* ----------------------------------------------- claims: regretable.Reader

\* The last call of Forget, 0 when there was none.
LastForget ==
    LET F == {i \in 1..Len(rcalls) : rcalls[i].op = "Forget"}
    IN  IF F = {} THEN 0 ELSE CHOOSE i \in F : \A j \in F : j <= i

\* The bytes the calls i..j delivered, in order.
RECURSIVE Delivered(_, _)
Delivered(i, j) ==
    IF i > j THEN <<>> ELSE rcalls[i].data \o Delivered(i + 1, j)

\* The calls since the last Forget that start a run of reads: the Forget (or
\* the creation) and every Regret after it.
RunStarts ==
    {LastForget} \cup {k \in LastForget + 1..Len(rcalls) : rcalls[k].op = "Regret"}

\* The bytes delivered after call k and before the next Regret.
RunAfter(k) ==
    LET later == {m \in k + 1..Len(rcalls) : rcalls[m].op = "Regret"}
        stop == IF later = {} THEN Len(rcalls) + 1
                ELSE CHOOSE m \in later : \A o \in later : m <= o
    IN  Delivered(k + 1, stop - 1)

\* C33: while the Reader has not overflowed, the reads after every Regret
\* deliver the stream again from the first byte delivered since the creation
\* or the last Forget, in order and without a gap, and go on with the bytes
\* not read before: every run of reads since then is the same stretch of the
\* stream, whatever the sizes of the reads and however often Regret is called.
C33_RegretReplaysInOrder ==
    (rb # Nil /\ ~rb.overflow) =>
        LET all == Delivered(LastForget + 1, Len(rcalls))
        IN  \A k \in RunStarts :
              LET run == RunAfter(k)
              IN  \A i \in 1..Len(run) : run[i] = all[1] + i - 1

\* After a Regret the reads delivered again what had been delivered and then
\* a byte that had not been read.
C33_Witness ==
    /\ rb # Nil /\ ~rb.overflow
    /\ \E k \in RunStarts :
         /\ k > LastForget
         /\ Delivered(LastForget + 1, k - 1) # <<>>
         /\ Len(RunAfter(k)) > Len(Delivered(LastForget + 1, k - 1))

\* C39: while the Reader has not overflowed, the first byte delivered after a
\* Forget is the byte of the stream that follows the last byte delivered
\* before it, also when the Forget comes after a Regret whose buffered bytes
\* were only partly delivered again.
C39_ForgetDropsNothing ==
    (rb # Nil /\ ~rb.overflow) =>
        \A k \in 1..Len(rcalls) :
            rcalls[k].op = "Forget" =>
                LET before == Delivered(1, k - 1)
                    after == Delivered(k + 1, Len(rcalls))
                IN  (before # <<>> /\ after # <<>>) =>
                        after[1] = before[Len(before)] + 1


\* ------------------------------------------ claims: ContentTypeIs guards

\* The pairs <<type, Content-Type>> of the model in which the Content-Type is
\* the type or begins with the type followed by ";".
TypeOrParameterised ==
    {<<"text/html", "text/html">>,
     <<"text/html", "text/html; charset=utf-8">>,
     <<"text/html; charset=utf-8", "text/html; charset=utf-8">>,
     <<"application/json", "application/json">>}

\* The handler calls of the response chain whose guard is one ContentTypeIs.
TypeGuardedCalls ==
    {j \in 1..Len(Events) :
        /\ IsHandlerCall(Events[j], "resp")
        /\ Len(Events[j].h.respCond) = 1
        /\ Events[j].h.respCond[1].cond = "ContentTypeIs"}

IsClosed(c) == c.Close >= 1 \/ (c.CloseRead >= 1 /\ c.CloseWrite >= 1)

\* The work on the CONNECT has ended without a panic: handleHttps has returned
\* and no task it started is still running or waiting.
EngineDone ==
    /\ conn # Nil
    /\ cpc = "returned"
    /\ mpc \in {"none", "done"}
    /\ \A dir \in {"c2t", "t2c"} : copies[dir] \in {"none", "done"}
    /\ joiner \in {"none", "done"}

\* C35: for a CONNECT whose client connection the engine keeps (every action
\* but Hijack and ProxyAuthHijack), once the engine's work has ended the client
\* connection is closed, and so is the destination connection if one was
\* dialled.
C35_EngineClosesConnections ==
    (EngineDone /\ conn.todo.Action \notin {"ConnectHijack", "ConnectProxyAuthHijack"}) =>
        /\ IsClosed(client)
        /\ target # Nil => IsClosed(target)


\* The status lines handleHttps and httpError wrote to the client, in order.
StatusLinesWritten ==
    IF conn = Nil \/ conn.todo.Action = "ConnectReject" THEN <<>>
    ELSE SelectSeq(client.written, LAMBDA b : b \in {Line200, Line407, Line502})

\* C36: for one CONNECT the engine never writes both "HTTP/1.0 200 OK" and
\* "HTTP/1.1 502 Bad Gateway" to the client.
C36_Never200And502 ==
    ~(\E i, j \in 1..Len(StatusLinesWritten) :
        StatusLinesWritten[i] = Line200 /\ StatusLinesWritten[j] = Line502)


\* ---------------------------------- claims: the response chain, once

\* How often the exchange invoked the response handler registered as number i.
ResponseCalls(i) ==
    Cardinality({j \in 1..Len(Events) :
                    /\ IsHandlerCall(Events[j], "resp")
                    /\ Events[j].idx = i /\ Events[j].invoked})

\* C37: for a plain-HTTP request each registered response handler is invoked
\* at most once, also when the round trip fails and a handler supplies a
\* response in its place.
C37_ResponseHandlerOnce ==
    \A i \in 1..Len(respHandlers) : ResponseCalls(i) <= 1


\* ------------------------------------ claims: the upstream connection

\* C38: when the upstream dial function returns an error after it has opened a
\* connection to the upstream proxy, it has closed that connection before it
\* returns, whether the response could not be read, the status was not 200, or
\* the body could not be read.
C38_FailedUpstreamDialCloses ==
    (DialledUpstream /\ dialled.err # NoError) =>
        \E j \in 1..Len(dialled.events) :
            dialled.events[j] = [ev |-> "Close", addr |-> dialled.events[1].addr]


\* ----------------------------------- claims: actions outside the pipeline

\* What the request and response pipeline logs: a chain started, a handler
\* called, a request read from the tunnel, sent on or answered.
PipelineEvents ==
    {"chain", "handler", "ReadRequest", "RoundTrip", "ReqWrite", "RespWrite",
     "TlsWrite", "Panic"}

\* C40: for a CONNECT resolved to Accept, Reject, Hijack or ProxyAuthHijack no
\* request handler and no response handler is invoked and the round tripper
\* is not called: no tunnel loop is entered, and nothing of the pipeline is
\* among what handleHttps and the tasks it started did.
C40_OnlyMitmReentersPipeline ==
    (conn # Nil /\ conn.todo.Action \in {"ConnectAccept", "ConnectReject",
                                         "ConnectHijack", "ConnectProxyAuthHijack"}) =>
        /\ mpc = "none" /\ cpc # "httpmitm"
        /\ ievents = <<>>
        /\ served = Nil
        /\ \A j \in 1..Len(cevents) : cevents[j].ev \notin PipelineEvents

\* A hijacked CONNECT on a proxy with a request handler whose guard holds for
\* the CONNECT request.
C40_Witness ==
    /\ ResolvedTo("ConnectHijack")
    /\ cpc = "returned"
    /\ \E i \in 1..Len(reqHandlers) : ReqCondsMatch(reqHandlers[i].reqConds, conn.r)

=============================================================================
